---- MODULE Spec2Model ----
(***************************************************************************)
(* iterate_edges.cpp of MEGAHIT: the step from k-mer size k to k + s.      *)
(* Contigs are read in double-buffered batches, their tips are indexed in  *)
(* crusial_kmers, every (k+s+1)-mer of a contig is written to edges.0 as a *)
(* packed edge; reads are scanned in parallel against crusial_kmers, the   *)
(* (k+s+1)-mers they support are counted in iterative_edges, the reads     *)
(* that supported one are written to rr.pb, and iterative_edges is drained *)
(* to edges.0.                                                             *)
(***************************************************************************)
EXTENDS Integers, Sequences, FiniteSets, TLC

\* ------------------------------------------------------------------------
\* Program constants
\* ------------------------------------------------------------------------

\* definitions.h: bits per base of a packed edge
kBitsPerEdgeChar == 2

\* definitions.h: width of multi_t
kBitsPerMulti_t == 16

\* definitions.h: the largest multi_t (MULTI_MAX)
kMaxMulti_t == 65535

\* the "tunable" of the first re-synchronisation regime
kResyncShort == 8

\* ------------------------------------------------------------------------
\* Bounds of the model
\* ------------------------------------------------------------------------

\* ContigPackage / ReadPackage capacity: records one batch holds
BatchCap == 2

\* ------------------------------------------------------------------------
\* Small helpers
\* ------------------------------------------------------------------------

Min(a, b) == IF a < b THEN a ELSE b

\* the sequence f with its elements written out
Tuple(f) == SubSeq(f, 1, Len(f))

\* TRUE; it has the sequence v computed where it stands, so that a loop
\* hands on to its next iteration a value, not a computation to be done
Evaluated(v) == Len(v) >= 0

\* the sequence seq with v at index i
SetAt(seq, i, v) == Tuple([x \in 1..Len(seq) |-> IF x = i THEN v ELSE seq[x]])

RECURSIVE Pow2(_)
Pow2(n) == IF n = 0 THEN 1 ELSE 2 * Pow2(n - 1)

\* ------------------------------------------------------------------------
\* Bases
\* ------------------------------------------------------------------------

\* globals.dna_map: every byte is 2 except 'A', 'C', 'G', 'T'
dna_map(ch) ==
    CASE ch = "A" -> 0
      [] ch = "C" -> 1
      [] ch = "G" -> 2
      [] ch = "T" -> 3
      [] OTHER -> 2

\* a package stores the mapped bases of a character sequence
MapSeq(chars) == Tuple([i \in 1..Len(chars) |-> dna_map(chars[i])])

\* CharAt(i, j) of a package, on the sequence of record i (j counts from 0)
CharAt(bases, j) == bases[j + 1]

\* ------------------------------------------------------------------------
\* Kmer<KMER_NUM_UINT64>: a sequence of bases of fixed length
\* ------------------------------------------------------------------------

KmerInit(n) == Tuple([i \in 1..n |-> 0])

ShiftAppend(kmer, c) ==
    IF Len(kmer) = 0 THEN kmer ELSE Tail(kmer) \o <<c % 4>>

ShiftPreappend(kmer, c) ==
    IF Len(kmer) = 0 THEN kmer ELSE <<c % 4>> \o SubSeq(kmer, 1, Len(kmer) - 1)

ReverseComplement(kmer) ==
    Tuple([i \in 1..Len(kmer) |-> 3 - kmer[Len(kmer) + 1 - i]])

KmerResize(kmer, n) ==
    Tuple([i \in 1..n |-> IF i <= Len(kmer) THEN kmer[i] ELSE 0])

get_base(kmer, i) == kmer[i + 1]

\* operator< : lexicographic from position 0 upward
KmerLess(a, b) ==
    \E i \in 1..Min(Len(a), Len(b)) :
        /\ a[i] < b[i]
        /\ \A j \in 1..(i - 1) : a[j] = b[j]

\* kmer.ShiftAppend(c) for each base of bases[from..to) in turn
RECURSIVE AppendRange(_, _, _, _)
AppendRange(kmer, bases, from, to) ==
    IF Evaluated(kmer) /\ from >= to THEN kmer
    ELSE AppendRange(ShiftAppend(kmer, CharAt(bases, from)), bases, from + 1, to)

\* ------------------------------------------------------------------------
\* 32-bit words: bit 31 (the MSB) is element 1, bit 0 is element 32
\* ------------------------------------------------------------------------

Zero32 == Tuple([i \in 1..32 |-> 0])

\* a non-negative value below 2^16 as a uint32_t
ToWord(n) ==
    Tuple([i \in 1..32 |-> IF i <= 16 THEN 0 ELSE (n \div Pow2(32 - i)) % 2])

Shl(w, n) == Tuple([i \in 1..32 |-> IF i + n <= 32 THEN w[i + n] ELSE 0])

Shr(w, n) == Tuple([i \in 1..32 |-> IF i - n >= 1 THEN w[i - n] ELSE 0])

BitOr(a, b) == Tuple([i \in 1..32 |-> IF a[i] = 1 \/ b[i] = 1 THEN 1 ELSE 0])

BitAnd(a, b) == Tuple([i \in 1..32 |-> IF a[i] = 1 /\ b[i] = 1 THEN 1 ELSE 0])

BitXor(a, b) == Tuple([i \in 1..32 |-> IF a[i] # b[i] THEN 1 ELSE 0])

BitNot(a) == Tuple([i \in 1..32 |-> 1 - a[i]])

\* the low 16 bits of a word, as a number
Low16(w) ==
    LET RECURSIVE Val(_)
        Val(i) == IF i > 32 THEN 0 ELSE w[i] * Pow2(32 - i) + Val(i + 1)
    IN Val(17)

\* ------------------------------------------------------------------------
\* Packed edges
\* ------------------------------------------------------------------------

\* kWordsPerEdge
WordsPerEdge(k, s) ==
    ((k + s + 1) * kBitsPerEdgeChar + kBitsPerMulti_t + 31) \div 32

\* last_shift
LastShift(next_k) ==
    LET r == (next_k + 1) % 16
    IN (IF r = 0 THEN 0 ELSE 16 - r) * 2

\* the fold with bases[j] in the place of bases[next_k - j]
RECURSIVE PackLoopForward(_, _, _, _, _, _)
PackLoopForward(bases, next_k, j, w, end_word, packed) ==
    IF j >= next_k + 1
    THEN SetAt(packed, end_word + 1, Shl(w, LastShift(next_k)))
    ELSE LET w1 == BitOr(Shl(w, 2), ToWord(CharAt(bases, j)))
         IN IF Evaluated(w1) /\ Evaluated(packed) /\ (j + 1) % 16 = 0
            THEN PackLoopForward(bases, next_k, j + 1, Zero32, end_word + 1,
                                 SetAt(packed, end_word + 1, w1))
            ELSE PackLoopForward(bases, next_k, j + 1, w1, end_word, packed)

\* the loop that folds bases[next_k - j], j = 0..next_k, into the words
RECURSIVE PackLoop(_, _, _, _, _, _)
PackLoop(bases, next_k, j, w, end_word, packed) ==
    IF j >= next_k + 1
    THEN SetAt(packed, end_word + 1, Shl(w, LastShift(next_k)))
    ELSE LET w1 == BitOr(Shl(w, 2), ToWord(CharAt(bases, next_k - j)))
         IN IF Evaluated(w1) /\ Evaluated(packed) /\ (j + 1) % 16 = 0
            THEN PackLoop(bases, next_k, j + 1, Zero32, end_word + 1,
                          SetAt(packed, end_word + 1, w1))
            ELSE PackLoop(bases, next_k, j + 1, w1, end_word, packed)

\* memset, the fold and the final shift: the words before the multiplicity
PackBases(bases, k, s) ==
    PackLoop(bases, k + s, 0, Zero32, 0,
             Tuple([x \in 1..WordsPerEdge(k, s) |-> Zero32]))

\* packed_edge[kWordsPerEdge - 1] |= multiplicity
OrMulti(packed, multi) ==
    SetAt(packed, Len(packed), BitOr(packed[Len(packed)], ToWord(multi)))

\* packed_edge[kWordsPerEdge - 1] ^= multiplicity
XorMulti(packed, multi) ==
    SetAt(packed, Len(packed), BitXor(packed[Len(packed)], ToWord(multi)))

\* assert((packed_edge[kWordsPerEdge - 1] & kMaxMulti_t) == 0)
MultiFieldClear(packed) ==
    BitAnd(packed[Len(packed)], ToWord(kMaxMulti_t)) = Zero32

\* the first edge of a contig
FirstEdge(bases, k, s, multi) == OrMulti(PackBases(bases, k, s), multi)

ClearSlotOmitted(packed, next_k) == packed

\* packed_edge[next_k / 16] &= ~(3 << (15 - next_k % 16) * 2)
ClearSlot(packed, next_k) ==
    SetAt(packed, (next_k \div 16) + 1,
          BitAnd(packed[(next_k \div 16) + 1],
                 BitNot(Shl(ToWord(3), (15 - (next_k % 16)) * 2))))

ShiftWordsNoCarry(packed, c) ==
    Tuple([x \in 1..Len(packed) |->
              IF x = 1 THEN BitOr(Shr(packed[1], 2), Shl(ToWord(c), 30))
              ELSE Shr(packed[x], 2)])

\* the word array shifted right by two bits, c in the high bits of word 0
ShiftWords(packed, c) ==
    Tuple([x \in 1..Len(packed) |->
              IF x = 1 THEN BitOr(Shr(packed[1], 2), Shl(ToWord(c), 30))
              ELSE BitOr(Shr(packed[x], 2), Shl(packed[x - 1], 30))])

\* the sliding update up to the assertion: the words before the multiplicity
SlideBases(packed, next_k, multi, c) ==
    ShiftWords(ClearSlot(XorMulti(packed, multi), next_k), c)

\* ------------------------------------------------------------------------
\* Multiplicity of a contig, converted from k to k + s + 1
\* ------------------------------------------------------------------------

\* int(x + 0.5) for x = num / den, num >= 0, den > 0
RoundHalfUp(num, den) == (2 * num + den) \div (2 * den)

Rescale(len, k, s, multiplicity_prev) ==
    LET next_k == k + s
        num_kmer == len - k + 1
        num_nextk1 == len - (next_k + 1) + 1
        internal_max == Min(next_k + 1 - k + 1, num_nextk1)
        num_external == internal_max - 1
        num_internal == num_kmer - num_external * 2
        \* exp_num_kmer * (next_k + 1 - k + 1) / multiplicity_prev
        exp_scaled == num_external * (num_external + 1) + internal_max * num_internal
    IN Min(RoundHalfUp(exp_scaled * multiplicity_prev * k,
                       (next_k + 1 - k + 1) * (next_k + 1) * num_nextk1),
           kMaxMulti_t)

\* ------------------------------------------------------------------------
\* Extension hints: the uint64_t s_seq as 32 two-bit slots; slot t holds
\* bits (31 - t) * 2 + 1 and (31 - t) * 2, and is element t + 1
\* ------------------------------------------------------------------------

HintZero == Tuple([t \in 1..32 |-> 0])

\* bitwise or of two two-bit values
Or2(a, b) ==
    (IF a % 2 = 1 \/ b % 2 = 1 THEN 1 ELSE 0)
    + 2 * (IF a \div 2 = 1 \/ b \div 2 = 1 THEN 1 ELSE 0)

\* s_seq |= uint64_t(c) << (31 - j) * 2
HintOrBase(s_seq, j, c) == SetAt(s_seq, j + 1, Or2(s_seq[j + 1], c))

\* s_seq |= s_length
HintOrLength(s_seq, s_length) ==
    Tuple([t \in 1..32 |->
              IF t <= 20 THEN s_seq[t]
              ELSE Or2(s_seq[t], (s_length \div Pow2(2 * (32 - t))) % 4)])

\* s_seq & 63
HintLength(s_seq) == s_seq[30] * 16 + s_seq[31] * 4 + s_seq[32]

\* (s_seq >> (31 - j) * 2) & 3
HintBase(s_seq, j) == s_seq[j + 1]

\* ------------------------------------------------------------------------
\* crusial_kmers entries of one contig
\* ------------------------------------------------------------------------

\* m[key] = val
MapPut(m, key, val) ==
    [x \in (DOMAIN m) \cup {key} |-> IF x = key THEN val ELSE m[x]]

EmptyMap == [x \in {} |-> 0]

\* s_length
HintLengthOf(len, k, s) == Min(s, len - k)

\* kmer of the first k bases
PrefixKmer(bases, k) == AppendRange(KmerInit(k), bases, 0, k)

RECURSIVE PrefixHintLoop(_, _, _, _, _, _)
PrefixHintLoop(bases, k, s, s_length, j, s_seq) ==
    IF Evaluated(s_seq) /\ j < s /\ j < s_length
    THEN PrefixHintLoop(bases, k, s, s_length, j + 1,
                        HintOrBase(s_seq, j, CharAt(bases, j + k)))
    ELSE s_seq

\* s_seq of the prefix k-mer
PrefixHint(bases, k, s) ==
    LET s_length == HintLengthOf(Len(bases), k, s)
    IN HintOrLength(PrefixHintLoop(bases, k, s, s_length, 0, HintZero), s_length)

RECURSIVE SuffixKmerLoop(_, _, _, _)
SuffixKmerLoop(bases, k, j, kmer) ==
    IF Evaluated(kmer) /\ j < k
    THEN SuffixKmerLoop(bases, k, j + 1,
                        ShiftAppend(kmer, 3 - CharAt(bases, Len(bases) - 1 - j)))
    ELSE kmer

SuffixKmerNoComplement(bases, k) ==
    Tuple([x \in 1..k |-> bases[Len(bases) + 1 - x]])

\* the prefix kmer after k times ShiftAppend(3 - CharAt(i, length - 1 - j))
SuffixKmer(bases, k) == SuffixKmerLoop(bases, k, 0, PrefixKmer(bases, k))

RECURSIVE SuffixHintLoop(_, _, _, _, _, _)
SuffixHintLoop(bases, k, s, s_length, j, s_seq) ==
    IF Evaluated(s_seq) /\ j < s /\ j < s_length
    THEN SuffixHintLoop(bases, k, s, s_length, j + 1,
                        HintOrBase(s_seq, j, 3 - CharAt(bases, Len(bases) - k - 1 - j)))
    ELSE s_seq

\* s_seq of the reverse-complemented suffix k-mer
SuffixHint(bases, k, s) ==
    LET s_length == HintLengthOf(Len(bases), k, s)
    IN HintOrLength(SuffixHintLoop(bases, k, s, s_length, 0, HintZero), s_length)

\* ------------------------------------------------------------------------
\* Phase 1 of the scan of a read: labelling kmer_exist
\* ------------------------------------------------------------------------

RECURSIVE MatchForwardNoCompare(_, _, _, _, _, _)
MatchForwardNoCompare(bases, k, cur_pos, s_seq, j, kmer_exist) ==
    IF /\ Evaluated(kmer_exist)
       /\ j < HintLength(s_seq)
       /\ cur_pos + k + j < Len(bases)
    THEN MatchForwardNoCompare(bases, k, cur_pos, s_seq, j + 1,
                               SetAt(kmer_exist, cur_pos + j + 1 + 1, TRUE))
    ELSE [kmer_exist |-> kmer_exist, j |-> j]

\* the forward matching loop; j is the loop variable at exit
RECURSIVE MatchForward(_, _, _, _, _, _)
MatchForward(bases, k, cur_pos, s_seq, j, kmer_exist) ==
    IF /\ Evaluated(kmer_exist)
       /\ j < HintLength(s_seq)
       /\ cur_pos + k + j < Len(bases)
       /\ CharAt(bases, cur_pos + k + j) = HintBase(s_seq, j)
    THEN MatchForward(bases, k, cur_pos, s_seq, j + 1,
                      SetAt(kmer_exist, cur_pos + j + 1 + 1, TRUE))
    ELSE [kmer_exist |-> kmer_exist, j |-> j]

\* the backward matching loop
RECURSIVE MatchBackward(_, _, _, _, _, _)
MatchBackward(bases, cur_pos, last_marked_pos, s_seq, j, kmer_exist) ==
    IF /\ Evaluated(kmer_exist)
       /\ j < HintLength(s_seq)
       /\ cur_pos - 1 - j > last_marked_pos
       /\ 3 - CharAt(bases, cur_pos - 1 - j) = HintBase(s_seq, j)
    THEN MatchBackward(bases, cur_pos, last_marked_pos, s_seq, j + 1,
                       SetAt(kmer_exist, cur_pos - 1 - j + 1, TRUE))
    ELSE kmer_exist

RECURSIVE AdvanceNoComplement(_, _, _, _)
AdvanceNoComplement(bases, k, next_pos, st) ==
    IF st.cur_pos < next_pos
    THEN LET c == CharAt(bases, st.cur_pos + 1 + k - 1)
         IN AdvanceNoComplement(bases, k, next_pos,
                    [st EXCEPT !.cur_pos = @ + 1,
                               !.kmer = ShiftAppend(@, c),
                               !.rev_kmer = ShiftPreappend(@, c)])
    ELSE st

\* the while (cur_pos < next_pos) loop that moves both kmers to next_pos
RECURSIVE Advance(_, _, _, _)
Advance(bases, k, next_pos, st) ==
    IF st.cur_pos < next_pos
    THEN LET c == CharAt(bases, st.cur_pos + 1 + k - 1)
         IN Advance(bases, k, next_pos,
                    [st EXCEPT !.cur_pos = @ + 1,
                               !.kmer = ShiftAppend(@, c),
                               !.rev_kmer = ShiftPreappend(@, 3 - c)])
    ELSE st

\* the state of the scan of a read before the first probe
ScanInit(bases, k) ==
    LET kmer == AppendRange(KmerInit(k), bases, 0, k)
    IN [cur_pos |-> 0, last_marked_pos |-> -1,
        kmer |-> kmer, rev_kmer |-> ReverseComplement(kmer),
        kmer_exist |-> Tuple([x \in 1..Len(bases) |-> FALSE]),
        probing |-> TRUE]

\* the position is not labelled yet and kmer is a key of crusial_kmers
HitForward(c3, st) == ~st.kmer_exist[st.cur_pos + 1] /\ st.kmer \in DOMAIN c3

\* else if rev_kmer is a key of crusial_kmers
HitReverse(c3, st) ==
    /\ ~st.kmer_exist[st.cur_pos + 1]
    /\ st.kmer \notin DOMAIN c3
    /\ st.rev_kmer \in DOMAIN c3

\* the labelling of one iteration: the two branches of the probe
ProbeMark(bases, k, c3, st) ==
    LET cur_pos == st.cur_pos
        fwd == MatchForward(bases, k, cur_pos, c3[st.kmer], 0,
                            SetAt(st.kmer_exist, cur_pos + 1, TRUE))
    IN IF HitForward(c3, st)
       THEN [st EXCEPT !.kmer_exist = fwd.kmer_exist,
                       !.last_marked_pos = cur_pos + fwd.j]
       ELSE IF HitReverse(c3, st)
       THEN [st EXCEPT !.kmer_exist =
                MatchBackward(bases, cur_pos, st.last_marked_pos,
                              c3[st.rev_kmer], 0,
                              SetAt(st.kmer_exist, cur_pos + 1, TRUE))]
       ELSE st

\* next_pos at the end of the probe of one iteration
NextPosOf(bases, k, c3, st) ==
    IF HitForward(c3, st)
    THEN ProbeMark(bases, k, c3, st).last_marked_pos + 1
    ELSE st.cur_pos + 1

\* one iteration of while (cur_pos + kmer_k <= length)
ProbeStep(bases, k, c3, st) ==
    LET st1 == ProbeMark(bases, k, c3, st)
        next_pos == NextPosOf(bases, k, c3, st)
    IN IF next_pos + k <= Len(bases)
       THEN Advance(bases, k, next_pos, st1)
       ELSE [st1 EXCEPT !.probing = FALSE]

RECURSIVE ProbeLoop(_, _, _, _)
ProbeLoop(bases, k, c3, st) ==
    IF st.probing /\ st.cur_pos + k <= Len(bases)
    THEN ProbeLoop(bases, k, c3, ProbeStep(bases, k, c3, st))
    ELSE st

\* phase 1 of a read of length >= kmer_k
Phase1(bases, k, c3) == ProbeLoop(bases, k, c3, ScanInit(bases, k))

\* ------------------------------------------------------------------------
\* Phase 2 of the scan of a read: emissions
\* ------------------------------------------------------------------------

EmitThresholdHigh(s) == s + 3

\* acc_exist >= step + 2
EmitThreshold(s) == s + 2

\* for (x = last_j + 1; x <= j; ++x) of the first regime
RECURSIVE ResyncBoth(_, _, _, _, _, _)
ResyncBoth(bases, k, x, j, kmer, rev_kmer) ==
    IF Evaluated(kmer) /\ Evaluated(rev_kmer) /\ x <= j
    THEN LET c == CharAt(bases, x + k - 1)
         IN ResyncBoth(bases, k, x + 1, j, ShiftAppend(kmer, c),
                       ShiftPreappend(rev_kmer, 3 - c))
    ELSE [kmer |-> kmer, rev_kmer |-> rev_kmer]

\* the indices of the bases the re-synchronisation at j reads
ResyncIndices(k, s, j, last_j) ==
    IF j - last_j < kResyncShort \/ j - last_j < k + s + 1
    THEN {x + k - 1 : x \in (last_j + 1)..j}
    ELSE (j - s - 1)..(j + k - 1)

ResyncSkipsOne(bases, k, s, j, last_j, kmer, rev_kmer) ==
    IF j - last_j < kResyncShort
    THEN ResyncBoth(bases, k, last_j + 1, j, kmer, rev_kmer)
    ELSE IF j - last_j < k + s + 1
    THEN LET km == AppendRange(kmer, bases, last_j + 2 + k - 1, j + k)
         IN [kmer |-> km, rev_kmer |-> ReverseComplement(km)]
    ELSE LET km == AppendRange(kmer, bases, j - s - 1, j + k)
         IN [kmer |-> km, rev_kmer |-> ReverseComplement(km)]

\* kmer and rev_kmer at the emission at j, from their values at last_j
Resync(bases, k, s, j, last_j, kmer, rev_kmer) ==
    IF j - last_j < kResyncShort
    THEN ResyncBoth(bases, k, last_j + 1, j, kmer, rev_kmer)
    ELSE IF j - last_j < k + s + 1
    THEN LET km == AppendRange(kmer, bases, last_j + 1 + k - 1, j + k)
         IN [kmer |-> km, rev_kmer |-> ReverseComplement(km)]
    ELSE LET km == AppendRange(kmer, bases, j - s - 1, j + k)
         IN [kmer |-> km, rev_kmer |-> ReverseComplement(km)]

CanonicalKeyForward(kmer, rev_kmer) == kmer

CanonicalKeyReverse(kmer, rev_kmer) == rev_kmer

\* the key of iterative_edges that an emission increments
CanonicalKey(kmer, rev_kmer) ==
    IF KmerLess(kmer, rev_kmer) THEN kmer ELSE rev_kmer

SatIncWrap(multi) == (multi + 1) % (kMaxMulti_t + 1)

\* if (multi < kMaxMulti_t) { ++multi; }
SatInc(multi) == IF multi < kMaxMulti_t THEN multi + 1 ELSE multi

ScanContinuesOffByOne(j, k, length) == j + k < length

\* the loop condition j + kmer_k <= length of phase 2
ScanContinues(j, k, length) == j + k <= length

\* the for loop over j from st.j up to the next emission or the end
RECURSIVE ScanToEmit(_, _, _, _)
ScanToEmit(bases, k, s, st) ==
    IF ~ScanContinues(st.j, k, Len(bases))
    THEN [st EXCEPT !.at = "end"]
    ELSE LET acc == IF st.kmer_exist[st.j + 1] THEN st.acc_exist + 1 ELSE 0
         IN IF acc >= EmitThreshold(s)
            THEN LET r == Resync(bases, k, s, st.j, st.last_j, st.kmer, st.rev_kmer)
                 IN [st EXCEPT !.acc_exist = acc, !.kmer = r.kmer,
                               !.rev_kmer = r.rev_kmer, !.at = "emit"]
            ELSE ScanToEmit(bases, k, s, [st EXCEPT !.acc_exist = acc, !.j = @ + 1])

\* the scan state at the start of phase 2, after phase 1 ended in p, moved to
\* its first emission
Phase2From(bases, k, s, p) ==
    ScanToEmit(bases, k, s,
        [kmer_exist |-> p.kmer_exist,
         kmer |-> KmerResize(p.kmer, k + s + 1),
         rev_kmer |-> KmerResize(p.rev_kmer, k + s + 1),
         j |-> 0, last_j |-> -k, acc_exist |-> 0,
         aligned |-> FALSE, at |-> "scan"])

\* the scan of a read from its start to its first emission
Phase2Init(bases, k, s, c3) == Phase2From(bases, k, s, Phase1(bases, k, c3))

Phase2NextNoFlag(bases, k, s, st) ==
    ScanToEmit(bases, k, s, [st EXCEPT !.last_j = st.j, !.j = @ + 1])

\* after the increment at st.j: last_j = j, aligned = true, ++j, and on
Phase2Next(bases, k, s, st) ==
    ScanToEmit(bases, k, s,
        [st EXCEPT !.last_j = st.j, !.aligned = TRUE, !.j = @ + 1])

\* ------------------------------------------------------------------------
\* Edges of one contig
\* ------------------------------------------------------------------------

RECURSIVE SlideLoopOneShort(_, _, _, _, _, _)
SlideLoopOneShort(bases, next_k, multi, j, packed, out) ==
    IF j >= Len(bases) - 1
    THEN [edges |-> out, ok |-> TRUE]
    ELSE LET b == SlideBases(packed, next_k, multi, CharAt(bases, j))
         IN SlideLoopOneShort(bases, next_k, multi, j + 1, OrMulti(b, multi),
                              Append(out, OrMulti(b, multi)))

\* for (j = next_k + 1; j < length; ++j): slide, assert, or, fwrite
RECURSIVE SlideLoop(_, _, _, _, _, _)
SlideLoop(bases, next_k, multi, j, packed, out) ==
    IF j >= Len(bases)
    THEN [edges |-> out, ok |-> TRUE]
    ELSE LET b == SlideBases(packed, next_k, multi, CharAt(bases, j))
         IN IF ~MultiFieldClear(b)
            THEN [edges |-> out, ok |-> FALSE]
            ELSE SlideLoop(bases, next_k, multi, j + 1, OrMulti(b, multi),
                           Append(out, OrMulti(b, multi)))

TooShortForEdgeOffByOne(len, k, s) == len <= k + s + 1

\* if (cur_package.seq_lengths[i] < next_k + 1) continue;
TooShortForEdge(len, k, s) == len < k + s + 1

\* the records one contig writes to edges.0, and whether the assertion held
ContigEdges(bases, k, s, multiplicity_prev) ==
    IF TooShortForEdge(Len(bases), k, s)
    THEN [edges |-> <<>>, ok |-> TRUE]
    ELSE LET multi == Rescale(Len(bases), k, s, multiplicity_prev)
             first == FirstEdge(bases, k, s, multi)
         IN SlideLoop(bases, k + s, multi, k + s + 1, first, <<first>>)

\* the record one entry of iterative_edges writes, before the multiplicity
KeyBases(key, k, s) == PackBases(key, k, s)

\* the words of a sequence of records, in order
RECURSIVE Flatten(_)
Flatten(recs) == IF recs = <<>> THEN <<>> ELSE Head(recs) \o Flatten(Tail(recs))

\* ------------------------------------------------------------------------
\* State
\* ------------------------------------------------------------------------

VARIABLES
    input,               \* options and the contents of the input files
    file_pos,            \* records consumed from each input file
    pc,                  \* position of the main thread
    is_addi_contigs,     \* argument of ReadContigsAndBuildHash
    is_first_round,
    input_thread_index,
    packages,            \* the two batch slots
    input_thread,        \* the I/O thread: state and the slot it was given
    eof,                 \* fastx_reader.eof()
    crusial_kmers,
    iterative_edges,
    locked,              \* keys of iterative_edges whose lock is held
    c3_stage,            \* per contig of the batch: writes to crusial_kmers done
    emit_i,              \* index of the sequential loop over the batch
    wk,                  \* the worker threads of the parallel read loop
    read_state,          \* per read of the batch: todo, busy, done
    is_aligned,
    num_aligned_reads,
    num_total_reads,
    drain_left,          \* entries of iterative_edges not yet enumerated
    output_edge_file,    \* edges.0: words
    output_read_file,    \* rr.pb: packed reads
    edge_log,            \* one entry per fwrite to edges.0: what was written
    incs,                \* per read: the keys it incremented, in order
    finished,            \* the reads in the order their scans ended
    assert_failed,
    opened,              \* the files InitGlobalData has opened or created
    exit_status          \* "running", or the status the process ended with

ioVars == <<file_pos, packages, input_thread, eof>>

mainVars == <<pc, is_addi_contigs, is_first_round, input_thread_index, c3_stage, emit_i>>

mapVars == <<crusial_kmers, iterative_edges, locked>>

readVars ==
    <<wk, read_state, is_aligned, num_aligned_reads, num_total_reads, incs, finished>>

outVars == <<drain_left, output_edge_file, output_read_file, edge_log, assert_failed>>

procVars == <<opened, exit_status>>

vars == <<input, procVars, ioVars, mainVars, mapVars, readVars, outVars>>

k_ == input.kmer_k

s_ == input.step

\* the worker threads: omp_set_num_threads(num_cpu_threads - 1)
Workers == 1..(input.num_cpu_threads - 1)

IdleWorker == [pc |-> "idle", i |-> 0, st |-> <<>>, key |-> <<>>, multi |-> 0]

CurSlotOfThread(index) == index

\* packages[input_thread_index ^ 1]
CurSlot(index) == 1 - index

cur_package == packages[CurSlot(input_thread_index)]

\* ------------------------------------------------------------------------
\* Initial state: after ParseOptions and InitGlobalData
\* ------------------------------------------------------------------------

\* the files InitGlobalData opens for reading and creates for writing
FilesOpened(with_addi) ==
    {"contigs_file", "contigs_multi_file", "read_file", "edges.0", "rr.pb"}
    \cup (IF with_addi THEN {"addi_contig_file", "addi_multi_file"} ELSE {})

InitWith(inp) ==
    /\ input = inp
    /\ opened = FilesOpened(inp.has_addi)
    /\ exit_status = "running"
    /\ file_pos = [contigs |-> 0, addi |-> 0, reads |-> 0]
    /\ pc = "start"
    /\ is_addi_contigs = FALSE
    /\ is_first_round = FALSE
    /\ input_thread_index = 0
    /\ packages = [x \in {0, 1} |-> <<>>]
    /\ input_thread = [state |-> "none", kind |-> "none", slot |-> 0]
    /\ eof = FALSE
    /\ crusial_kmers = EmptyMap
    /\ iterative_edges = EmptyMap
    /\ locked = {}
    /\ c3_stage = <<>>
    /\ emit_i = 0
    /\ wk = Tuple([w \in 1..(inp.num_cpu_threads - 1) |-> IdleWorker])
    /\ read_state = <<>>
    /\ is_aligned = <<>>
    /\ num_aligned_reads = 0
    /\ num_total_reads = 0
    /\ drain_left = {}
    /\ output_edge_file = <<>>
    /\ output_read_file = <<>>
    /\ edge_log = <<>>
    /\ incs = Tuple([r \in 1..Len(inp.reads) |-> <<>>])
    /\ finished = <<>>
    /\ assert_failed = FALSE

\* ------------------------------------------------------------------------
\* The I/O thread
\* ------------------------------------------------------------------------

\* pthread_create(&input_thread, NULL, ..., &input_thread_data)
Created(kind, slot) == [state |-> "running", kind |-> kind, slot |-> slot]

\* ReadContigsThread: package.ReadContigs, package.ReadMultiplicity
ReadContigsThread ==
    /\ input_thread.state = "running"
    /\ input_thread.kind = "contigs"
    /\ LET src == IF is_addi_contigs THEN input.addi ELSE input.contigs
           mul == IF is_addi_contigs THEN input.addi_multi ELSE input.multi
           pos == IF is_addi_contigs THEN file_pos.addi ELSE file_pos.contigs
           n == Min(BatchCap, Len(src) - pos)
           batch == Tuple([x \in 1..n |->
                              [bases |-> MapSeq(src[pos + x]),
                               multiplicity |-> mul[pos + x],
                               id |-> pos + x]])
       IN /\ packages' = [packages EXCEPT ![input_thread.slot] = batch]
          /\ file_pos' = IF is_addi_contigs
                         THEN [file_pos EXCEPT !.addi = pos + n]
                         ELSE [file_pos EXCEPT !.contigs = pos + n]
          /\ eof' = (pos + n = Len(src))
    /\ input_thread' = [input_thread EXCEPT !.state = "finished"]
    /\ UNCHANGED <<input, procVars, mainVars, mapVars, readVars, outVars>>

\* ReadReadsThread: package.clear(), then a batch of reads
ReadReadsThread ==
    /\ input_thread.state = "running"
    /\ input_thread.kind = "reads"
    /\ LET pos == file_pos.reads
           n == Min(BatchCap, Len(input.reads) - pos)
           batch == Tuple([x \in 1..n |->
                              [bases |-> MapSeq(input.reads[pos + x]), id |-> pos + x]])
       IN /\ packages' = [packages EXCEPT ![input_thread.slot] = batch]
          /\ file_pos' = [file_pos EXCEPT !.reads = pos + n]
          /\ eof' = (pos + n = Len(input.reads))
    /\ input_thread' = [input_thread EXCEPT !.state = "finished"]
    /\ UNCHANGED <<input, procVars, mainVars, mapVars, readVars, outVars>>

\* ------------------------------------------------------------------------
\* main and ReadContigsAndBuildHash
\* ------------------------------------------------------------------------

FirstRoundAlways(addi) == TRUE

\* bool is_first_round = !is_addi_contigs
FirstRound(addi) == ~addi

\* entry of ReadContigsAndBuildHash up to the first pthread_create
EnterContigs(addi) ==
    /\ is_addi_contigs' = addi
    /\ is_first_round' = FirstRound(addi)
    /\ input_thread_index' = 0
    /\ packages' = [x \in {0, 1} |-> <<>>]
    /\ input_thread' = Created("contigs", 0)
    /\ eof' = FALSE
    /\ pc' = "c_join"
    /\ c3_stage' = <<>>
    /\ emit_i' = 0
    /\ UNCHANGED <<input, procVars, file_pos, mapVars, readVars, outVars>>

\* ReadContigsAndBuildHash(globals, false)
BeginPrimary ==
    /\ pc = "start"
    /\ EnterContigs(FALSE)

\* if (options.addi_multi_file != "") ReadContigsAndBuildHash(globals, true)
BeginAddi ==
    /\ pc = "ret_contigs"
    /\ ~is_addi_contigs
    /\ input.has_addi
    /\ EnterContigs(TRUE)

ContigsExhaustedAtEof(at_eof, size) == at_eof

\* fastx_reader.eof() && packages[input_thread_index].size() == 0
ContigsExhausted(at_eof, size) == at_eof /\ size = 0

\* pthread_join; if (fastx_reader.eof() && size() == 0) break
ContigJoinBreak ==
    /\ pc = "c_join"
    /\ input_thread.state = "finished"
    /\ ContigsExhausted(eof, Len(packages[input_thread_index]))
    /\ pc' = "ret_contigs"
    /\ input_thread' = [input_thread EXCEPT !.state = "joined"]
    /\ UNCHANGED <<input, procVars, file_pos, packages, eof, is_addi_contigs, is_first_round,
                   input_thread_index, c3_stage, emit_i, mapVars, readVars, outVars>>

BuildsC3Always(addi) == TRUE

\* if (!is_addi_contigs): the batch goes through the loop over crusial_kmers
BuildsC3(addi) == ~addi

\* pthread_join; input_thread_index ^= 1; pthread_create; cur_package
ContigJoinSwap ==
    /\ pc = "c_join"
    /\ input_thread.state = "finished"
    /\ ~ContigsExhausted(eof, Len(packages[input_thread_index]))
    /\ input_thread_index' = 1 - input_thread_index
    /\ input_thread' = Created("contigs", 1 - input_thread_index)
    /\ c3_stage' = Tuple([x \in 1..Len(packages[CurSlot(1 - input_thread_index)]) |->
                             IF BuildsC3(is_addi_contigs) THEN 0 ELSE 2])
    /\ emit_i' = 0
    /\ pc' = "c_build"
    /\ UNCHANGED <<input, procVars, file_pos, packages, eof, is_addi_contigs, is_first_round,
                   mapVars, readVars, outVars>>

\* contigs of the batch a worker thread is in the middle of
InProgress == {x \in DOMAIN c3_stage : c3_stage[x] = 1}

\* one iteration of the parallel loop up to crusial_kmers[kmer] = s_seq
BuildPrefix(x) ==
    /\ pc = "c_build"
    /\ c3_stage[x] = 0
    /\ Cardinality(InProgress) < Cardinality(Workers)
    /\ LET bases == cur_package[x].bases
       IN IF Len(bases) < k_
          THEN /\ c3_stage' = [c3_stage EXCEPT ![x] = 2]
               /\ UNCHANGED crusial_kmers
          ELSE /\ crusial_kmers' = MapPut(crusial_kmers, PrefixKmer(bases, k_),
                                          PrefixHint(bases, k_, s_))
               /\ c3_stage' = [c3_stage EXCEPT ![x] = IF Len(bases) > k_ THEN 1 ELSE 2]
    /\ UNCHANGED <<input, procVars, ioVars, pc, is_addi_contigs, is_first_round,
                   input_thread_index, emit_i, iterative_edges, locked,
                   readVars, outVars>>

\* if (seq_lengths[i] > kmer_k): the second crusial_kmers[kmer] = s_seq
BuildSuffix(x) ==
    /\ pc = "c_build"
    /\ c3_stage[x] = 1
    /\ LET bases == cur_package[x].bases
       IN crusial_kmers' = MapPut(crusial_kmers, SuffixKmer(bases, k_),
                                  SuffixHint(bases, k_, s_))
    /\ c3_stage' = [c3_stage EXCEPT ![x] = 2]
    /\ UNCHANGED <<input, procVars, ioVars, pc, is_addi_contigs, is_first_round,
                   input_thread_index, emit_i, iterative_edges, locked,
                   readVars, outVars>>

\* the two fwrite of the header
HeaderWords == <<ToWord(k_ + s_), ToWord(WordsPerEdge(k_, s_))>>

\* end of the parallel loop; if (is_first_round) { header; is_first_round = false; }
WriteHeader ==
    /\ pc = "c_build"
    /\ \A x \in DOMAIN c3_stage : c3_stage[x] = 2
    /\ IF is_first_round
       THEN /\ output_edge_file' = output_edge_file \o HeaderWords
            /\ edge_log' = Append(edge_log, [kind |-> "header", id |-> 0, pos |-> 0,
                                             words |-> 2, multi |-> 0])
       ELSE UNCHANGED <<output_edge_file, edge_log>>
    /\ is_first_round' = FALSE
    /\ emit_i' = 0
    /\ pc' = "c_emit"
    /\ UNCHANGED <<input, procVars, ioVars, is_addi_contigs, input_thread_index, c3_stage,
                   mapVars, readVars, drain_left, output_read_file, assert_failed>>

\* the log entries of the records of one contig
ContigLog(id, n, W, multi) ==
    Tuple([p \in 1..n |-> [kind |-> IF is_addi_contigs THEN "addi" ELSE "contig",
                           id |-> id, pos |-> p - 1, words |-> W, multi |-> multi]])

\* one iteration of the sequential loop over the batch: the edges of a contig
EmitContig ==
    /\ pc = "c_emit"
    /\ emit_i < Len(cur_package)
    /\ LET c == cur_package[emit_i + 1]
           r == ContigEdges(c.bases, k_, s_, c.multiplicity)
       IN /\ output_edge_file' = output_edge_file \o Flatten(r.edges)
          /\ edge_log' = edge_log \o ContigLog(c.id, Len(r.edges), WordsPerEdge(k_, s_),
                                           Rescale(Len(c.bases), k_, s_, c.multiplicity))
          /\ assert_failed' = ~r.ok
          /\ pc' = IF r.ok THEN "c_emit" ELSE "aborted"
    /\ emit_i' = emit_i + 1
    /\ UNCHANGED <<input, procVars, ioVars, is_addi_contigs, is_first_round, input_thread_index,
                   c3_stage, mapVars, readVars, drain_left, output_read_file>>

\* end of the loop over the batch: back to pthread_join
EmitLoopEnd ==
    /\ pc = "c_emit"
    /\ emit_i = Len(cur_package)
    /\ pc' = "c_join"
    /\ UNCHANGED <<input, procVars, ioVars, is_addi_contigs, is_first_round, input_thread_index,
                   c3_stage, emit_i, mapVars, readVars, outVars>>

\* ------------------------------------------------------------------------
\* ReadReadsAndProcess
\* ------------------------------------------------------------------------

\* entry of ReadReadsAndProcess up to omp_set_num_threads
BeginReads ==
    /\ pc = "ret_contigs"
    /\ is_addi_contigs \/ ~input.has_addi
    /\ input_thread_index' = 0
    /\ packages' = [x \in {0, 1} |-> <<>>]
    /\ input_thread' = Created("reads", 0)
    /\ eof' = FALSE
    /\ pc' = "r_join"
    /\ UNCHANGED <<input, procVars, file_pos, is_addi_contigs, is_first_round, c3_stage, emit_i,
                   mapVars, readVars, outVars>>

\* pthread_join; if (packages[input_thread_index].num_of_reads == 0) break
ReadJoinBreak ==
    /\ pc = "r_join"
    /\ input_thread.state = "finished"
    /\ Len(packages[input_thread_index]) = 0
    /\ input_thread' = [input_thread EXCEPT !.state = "joined"]
    /\ drain_left' = DOMAIN iterative_edges
    /\ pc' = "drain"
    /\ UNCHANGED <<input, procVars, file_pos, packages, eof, is_addi_contigs, is_first_round,
                   input_thread_index, c3_stage, emit_i, mapVars, readVars,
                   output_edge_file, output_read_file, edge_log, assert_failed>>

\* is_aligned.reset(n)
AtomicBitVectorReset(bits, n) == Tuple([x \in 1..n |-> FALSE])

\* pthread_join; swap; pthread_create; cur_package; is_aligned.reset
ReadJoinSwap ==
    /\ pc = "r_join"
    /\ input_thread.state = "finished"
    /\ Len(packages[input_thread_index]) # 0
    /\ input_thread_index' = 1 - input_thread_index
    /\ input_thread' = Created("reads", 1 - input_thread_index)
    /\ LET n == Len(packages[CurSlot(1 - input_thread_index)])
       IN /\ is_aligned' = AtomicBitVectorReset(is_aligned, n)
          /\ read_state' = Tuple([x \in 1..n |-> "todo"])
    /\ pc' = "r_scan"
    /\ UNCHANGED <<input, procVars, file_pos, packages, eof, is_addi_contigs, is_first_round,
                   c3_stage, emit_i, mapVars, wk, num_aligned_reads, num_total_reads,
                   incs, finished, outVars>>

\* if (length < kmer_k + step + 1) continue;
SkipRead(length) == length < k_ + s_ + 1

\* end of one iteration of the parallel loop: if (aligned) { set; ++num }
FinishRead(w, x, aligned) ==
    /\ wk' = [wk EXCEPT ![w] = IdleWorker]
    /\ read_state' = [read_state EXCEPT ![x] = "done"]
    /\ is_aligned' = IF aligned THEN [is_aligned EXCEPT ![x] = TRUE] ELSE is_aligned
    /\ num_aligned_reads' = IF aligned THEN num_aligned_reads + 1 ELSE num_aligned_reads
    /\ finished' = Append(finished, cur_package[x].id)

\* a worker at an emission: it goes for the lock of the canonical key
AtEmission(w, x, st) ==
    /\ wk' = [wk EXCEPT ![w] = [pc |-> "lock", i |-> x, st |-> st,
                                key |-> CanonicalKey(st.kmer, st.rev_kmer),
                                multi |-> 0]]
    /\ read_state' = [read_state EXCEPT ![x] = "busy"]
    /\ UNCHANGED <<is_aligned, num_aligned_reads, finished>>

\* a worker takes iteration x of the parallel loop: phase 1, and phase 2 up
\* to its first emission
StartRead(w, x) ==
    /\ pc = "r_scan"
    /\ wk[w].pc = "idle"
    /\ read_state[x] = "todo"
    /\ LET bases == cur_package[x].bases
       IN IF SkipRead(Len(bases))
          THEN FinishRead(w, x, FALSE)
          ELSE LET st == Phase2Init(bases, k_, s_, crusial_kmers)
               IN IF st.at = "emit"
                  THEN AtEmission(w, x, st)
                  ELSE FinishRead(w, x, st.aligned)
    /\ UNCHANGED <<input, procVars, ioVars, mainVars, mapVars, num_total_reads, incs, outVars>>

LockFreeAlways(held, key) == TRUE

\* the lock of key can be taken
LockFree(held, key) == key \notin held

\* multi_t &multi = globals.iterative_edges.get_ref_with_lock(key)
GetRefWithLock(w) ==
    /\ pc = "r_scan"
    /\ wk[w].pc = "lock"
    /\ LockFree(locked, wk[w].key)
    /\ locked' = locked \cup {wk[w].key}
    /\ iterative_edges' = IF wk[w].key \in DOMAIN iterative_edges
                          THEN iterative_edges
                          ELSE MapPut(iterative_edges, wk[w].key, 0)
    /\ wk' = [wk EXCEPT ![w].pc = "load"]
    /\ UNCHANGED <<input, procVars, ioVars, mainVars, crusial_kmers, read_state, is_aligned,
                   num_aligned_reads, num_total_reads, incs, finished, outVars>>

\* the read of multi in if (multi < kMaxMulti_t) { ++multi; }
LoadMulti(w) ==
    /\ pc = "r_scan"
    /\ wk[w].pc = "load"
    /\ wk' = [wk EXCEPT ![w].pc = "store", ![w].multi = iterative_edges[wk[w].key]]
    /\ UNCHANGED <<input, procVars, ioVars, mainVars, mapVars, read_state, is_aligned,
                   num_aligned_reads, num_total_reads, incs, finished, outVars>>

\* the write of multi
StoreMulti(w) ==
    /\ pc = "r_scan"
    /\ wk[w].pc = "store"
    /\ iterative_edges' = [iterative_edges EXCEPT ![wk[w].key] = SatInc(wk[w].multi)]
    /\ incs' = [incs EXCEPT ![cur_package[wk[w].i].id] = Append(@, wk[w].key)]
    /\ wk' = [wk EXCEPT ![w].pc = "unlock"]
    /\ UNCHANGED <<input, procVars, ioVars, mainVars, crusial_kmers, locked, read_state,
                   is_aligned, num_aligned_reads, num_total_reads, finished, outVars>>

\* iterative_edges.unlock(key); last_j = j; aligned = true; the loop goes on
\* to the next emission or to the end of the iteration
Unlock(w) ==
    /\ pc = "r_scan"
    /\ wk[w].pc = "unlock"
    /\ locked' = locked \ {wk[w].key}
    /\ LET x == wk[w].i
           st == Phase2Next(cur_package[x].bases, k_, s_, wk[w].st)
       IN IF st.at = "emit"
          THEN AtEmission(w, x, st)
          ELSE FinishRead(w, x, st.aligned)
    /\ UNCHANGED <<input, procVars, ioVars, mainVars, crusial_kmers, iterative_edges,
                   num_total_reads, incs, outVars>>

ShouldWriteAlways(bits, x) == TRUE

\* if (is_aligned.get(i))
ShouldWrite(bits, x) == bits[x]

\* for (i = 0; i < num_of_reads; ++i) if (is_aligned.get(i)) fwrite(...)
RECURSIVE FilteredReads(_, _, _)
FilteredReads(package, bits, x) ==
    IF x > Len(package) THEN <<>>
    ELSE (IF ShouldWrite(bits, x) THEN <<package[x]>> ELSE <<>>)
         \o FilteredReads(package, bits, x + 1)

\* end of the parallel loop; num_total_reads; the loop that writes rr.pb
WriteReads ==
    /\ pc = "r_scan"
    /\ \A x \in DOMAIN read_state : read_state[x] = "done"
    /\ num_total_reads' = num_total_reads + Len(cur_package)
    /\ output_read_file' = output_read_file \o FilteredReads(cur_package, is_aligned, 1)
    /\ pc' = "r_join"
    /\ UNCHANGED <<input, procVars, ioVars, is_addi_contigs, is_first_round, input_thread_index,
                   c3_stage, emit_i, mapVars, wk, read_state, is_aligned,
                   num_aligned_reads, incs, finished, drain_left, output_edge_file,
                   edge_log, assert_failed>>

\* one iteration of the loop over iterative_edges, in any enumeration order
DrainEdge(key) ==
    /\ pc = "drain"
    /\ key \in drain_left
    /\ drain_left' = drain_left \ {key}
    /\ LET b == KeyBases(key, k_, s_)
       IN IF MultiFieldClear(b)
          THEN /\ output_edge_file' = output_edge_file
                                      \o OrMulti(b, iterative_edges[key])
               /\ edge_log' = Append(edge_log, [kind |-> "c4", id |-> 0, pos |-> 0,
                                                words |-> WordsPerEdge(k_, s_),
                                                multi |-> iterative_edges[key]])
               /\ UNCHANGED <<pc, assert_failed>>
          ELSE /\ assert_failed' = TRUE
               /\ pc' = "aborted"
               /\ UNCHANGED <<output_edge_file, edge_log>>
    /\ UNCHANGED <<input, procVars, ioVars, is_addi_contigs, is_first_round, input_thread_index,
                   c3_stage, emit_i, mapVars, readVars, output_read_file>>

\* return from ReadReadsAndProcess; ClearGlobalData; return 0
Finish ==
    /\ pc = "drain"
    /\ drain_left = {}
    /\ pc' = "done"
    /\ opened' = {}
    /\ exit_status' = 0
    /\ UNCHANGED <<input, ioVars, is_addi_contigs, is_first_round, input_thread_index,
                   c3_stage, emit_i, mapVars, readVars, outVars>>

\* ------------------------------------------------------------------------
\* Inputs
\* ------------------------------------------------------------------------

\* the largest num_cpu_threads tried (one I/O thread, the rest workers)
MaxThreads == 3

AAACCCGGG == <<"A", "A", "A", "C", "C", "C", "G", "G", "G">>

AAACCCGG == <<"A", "A", "A", "C", "C", "C", "G", "G">>

AAACCC == <<"A", "A", "A", "C", "C", "C">>

GGGTTT == <<"G", "G", "G", "T", "T", "T">>

ACGTAC == <<"A", "C", "G", "T", "A", "C">>

ANGTAC == <<"A", "N", "G", "T", "A", "C">>

TTGCA == <<"T", "T", "G", "C", "A">>

CCATG == <<"C", "C", "A", "T", "G">>

AAAC == <<"A", "A", "A", "C">>

AAATTT == <<"A", "A", "A", "T", "T", "T">>

AAC == <<"A", "A", "C">>

ACGGTCAATCGTTAGCCA ==
    <<"A", "C", "G", "G", "T", "C", "A", "A", "T", "C", "G", "T", "T", "A", "G",
      "C", "C", "A">>

\* reads of the read file consumed before the initial state: none at startup
NoCarry == [read |-> <<>>, times |-> 0]

Input(k, s, contigs, multi, addi, addi_multi, reads) ==
    [kmer_k |-> k, step |-> s, contigs |-> contigs, multi |-> multi,
     addi |-> addi, addi_multi |-> addi_multi, has_addi |-> addi # <<>>,
     reads |-> reads, carried |-> NoCarry]

\* a contig whose interior a read lies in
InContigTip == Input(3, 1, <<AAACCCGGG>>, <<5>>, <<>>, <<>>, <<AAACCCGG>>)

\* one contig of length k + s + 1, no reads
SingleContig == Input(3, 2, <<ACGTAC>>, <<10>>, <<>>, <<>>, <<>>)

\* reads in both strands of a short contig, a short read, two read batches
BothStrands ==
    Input(3, 1, <<AAACCC>>, <<5>>, <<>>, <<>>, <<AAACCC, GGGTTT, AAAC, AAACCC>>)

\* an empty primary contig file, additional contigs
NoPrimary == Input(3, 1, <<>>, <<>>, <<ACGTAC>>, <<3>>, <<ACGTAC, AAAC>>)

\* two primary batches, an additional contig, reads of which some align
TwoBatches ==
    Input(3, 1, <<AAACCC, ANGTAC, TTGCA>>, <<5, 70000, 1>>, <<CCATG, AAAC>>, <<2, 2>>,
          <<TTGCA, AAAC, AAACCC>>)

\* a read that is its own reverse complement
Palindrome == Input(3, 2, <<AAATTT>>, <<4>>, <<>>, <<>>, <<AAATTT>>)

\* a primary contig of length k next to a longer one
ContigOfLengthK == Input(3, 1, <<AAC, AAACCC>>, <<2, 5>>, <<>>, <<>>, <<>>)

\* a read whose two windows are the reverse complement of each other
RepeatedKey == Input(3, 1, <<AAATTT>>, <<4>>, <<>>, <<>>, <<AAATTT>>)

\* a read with two contigs of length k + s + 1 at its two ends, 8 apart
TwoTipsApart ==
    Input(8, 1, <<SubSeq(ACGGTCAATCGTTAGCCA, 1, 10), SubSeq(ACGGTCAATCGTTAGCCA, 9, 18)>>,
          <<3, 3>>, <<>>, <<>>, <<ACGGTCAATCGTTAGCCA>>)

Scenarios ==
    {InContigTip, SingleContig, BothStrands, NoPrimary, TwoBatches, Palindrome,
     ContigOfLengthK, RepeatedKey, TwoTipsApart}

WithThreads(inp, T) ==
    [kmer_k |-> inp.kmer_k, step |-> inp.step, num_cpu_threads |-> T,
     contigs |-> inp.contigs, multi |-> inp.multi, addi |-> inp.addi,
     addi_multi |-> inp.addi_multi, has_addi |-> inp.has_addi, reads |-> inp.reads,
     carried |-> inp.carried]

Init ==
    \E sc \in Scenarios, T \in 2..MaxThreads : InitWith(WithThreads(sc, T))

Next ==
    \/ ReadContigsThread
    \/ ReadReadsThread
    \/ BeginPrimary
    \/ BeginAddi
    \/ ContigJoinBreak
    \/ ContigJoinSwap
    \/ \E x \in DOMAIN c3_stage : BuildPrefix(x)
    \/ \E x \in DOMAIN c3_stage : BuildSuffix(x)
    \/ WriteHeader
    \/ EmitContig
    \/ EmitLoopEnd
    \/ BeginReads
    \/ ReadJoinBreak
    \/ ReadJoinSwap
    \/ \E w \in Workers, x \in DOMAIN read_state : StartRead(w, x)
    \/ \E w \in Workers : GetRefWithLock(w)
    \/ \E w \in Workers : LoadMulti(w)
    \/ \E w \in Workers : StoreMulti(w)
    \/ \E w \in Workers : Unlock(w)
    \/ WriteReads
    \/ \E key \in drain_left : DrainEdge(key)
    \/ Finish

Spec == Init /\ [][Next]_vars

\* ------------------------------------------------------------------------
\* Vocabulary of the properties
\* ------------------------------------------------------------------------

\* k + s + 1, the length of an edge
EdgeLen == k_ + s_ + 1

ReadIds == 1..Len(input.reads)

ReadBases(r) == MapSeq(input.reads[r])

IsSubstring(r, c) ==
    \E off \in 0..(Len(c) - Len(r)) : SubSeq(c, off + 1, off + Len(r)) = r

\* the read is an exact substring of a primary contig of length >= k + s + 1
InPrimaryContig(r) ==
    \E c \in 1..Len(input.contigs) :
        /\ Len(input.contigs[c]) >= EdgeLen
        /\ IsSubstring(ReadBases(r), MapSeq(input.contigs[c]))

\* the ids of the reads in rr.pb, in file order
WrittenIds == Tuple([x \in 1..Len(output_read_file) |-> output_read_file[x].id])

Written(r) == \E x \in 1..Len(output_read_file) : output_read_file[x].id = r

\* the labels phase 1 gives the k-mer positions of read r
Labels(r) == Phase1(ReadBases(r), k_, crusial_kmers).kmer_exist

\* the scan positions j of read r whose s + 2 k-mer positions j-s-1..j are
\* all labelled: the (k+s+1)-mer windows the read supports
SupportedWindows(r) ==
    {j \in (s_ + 1)..(Len(ReadBases(r)) - k_) :
        \A x \in (j - s_ - 1)..j : Labels(r)[x + 1]}

FullyLabelled(r) ==
    \A j \in 0..(Len(ReadBases(r)) - k_) : Labels(r)[j + 1]

\* ------------------------------------------------------------------------
\* C1
\* ------------------------------------------------------------------------

\* C1 as stated: every read of length L >= k+s+1 that is an exact substring
\* of a primary contig of length >= k+s+1 has performed L - (k+s+1) + 1
\* increments on iterative_edges and is in rr.pb when the program is done.
C1_SubstringReadAligned ==
    pc = "done" =>
        \A r \in ReadIds :
            (Len(ReadBases(r)) >= EdgeLen /\ InPrimaryContig(r)) =>
                /\ Len(incs[r]) = Len(ReadBases(r)) - EdgeLen + 1
                /\ Written(r)

\* C1 amended: a read of length L >= k+s+1 performs one increment per
\* (k+s+1)-mer window whose s+2 k-mer positions phase 1 labelled, at most
\* L - (k+s+1) + 1 of them, and is in rr.pb exactly when there is such a
\* window; a read all of whose k-mer positions are labelled performs exactly
\* L - (k+s+1) + 1 increments and is in rr.pb. Being a substring of a contig
\* is not enough: only the contig's two tips are labelled.
C1_LabelledReadAligned ==
    pc = "done" =>
        \A r \in ReadIds :
            Len(ReadBases(r)) >= EdgeLen =>
                /\ Len(incs[r]) = Cardinality(SupportedWindows(r))
                /\ Len(incs[r]) <= Len(ReadBases(r)) - EdgeLen + 1
                /\ Written(r) <=> SupportedWindows(r) # {}
                /\ FullyLabelled(r) =>
                       /\ Len(incs[r]) = Len(ReadBases(r)) - EdgeLen + 1
                       /\ Written(r)

\* a read inside a primary contig, fully labelled, with two increments, and
\* in the same run nothing else: the program is done
C1_Witness ==
    /\ pc = "done"
    /\ \E r \in ReadIds :
           /\ Len(ReadBases(r)) > EdgeLen
           /\ InPrimaryContig(r)
           /\ FullyLabelled(r)
           /\ Len(incs[r]) = Len(ReadBases(r)) - EdgeLen + 1
           /\ Written(r)

\* ------------------------------------------------------------------------
\* C2
\* ------------------------------------------------------------------------

HeaderCount == Cardinality({x \in 1..Len(edge_log) : edge_log[x].kind = "header"})

\* the smallest number of 32-bit words that hold n bases and a multiplicity
CeilWords(n) == CHOOSE W \in 0..(n + 1) : 32 * W >= 2 * n + 16 /\ 32 * (W - 1) < 2 * n + 16

\* C2: whatever the number of primary contig batches, edges.0 begins with
\* the words next_k = k + s and W, and the header is written exactly once.
C2_HeaderOnceAtStart ==
    /\ HeaderCount <= 1
    /\ output_edge_file # <<>> =>
           /\ Len(output_edge_file) >= 2
           /\ output_edge_file[1] = ToWord(k_ + s_)
           /\ output_edge_file[2] = ToWord(CeilWords(EdgeLen))
           /\ edge_log[1].kind = "header"
    /\ pc = "done" => HeaderCount = 1

\* ------------------------------------------------------------------------
\* C3
\* ------------------------------------------------------------------------

KindRank(kind) ==
    CASE kind = "header" -> 0
      [] kind = "contig" -> 1
      [] kind = "addi" -> 2
      [] kind = "c4" -> 3

\* the log describes the file: the words of the records add up
LogMatchesFile ==
    LET RECURSIVE Sum(_)
        Sum(x) == IF x = 0 THEN 0 ELSE edge_log[x].words + Sum(x - 1)
    IN Sum(Len(edge_log)) = Len(output_edge_file)

\* header, primary contigs, additional contigs, iterative edges; contigs in
\* the order of the input file, the windows of a contig from 0 upward
RecordsOrdered ==
    /\ LogMatchesFile
    /\ \A x \in 1..Len(edge_log) : \A y \in (x + 1)..Len(edge_log) :
           /\ KindRank(edge_log[x].kind) <= KindRank(edge_log[y].kind)
           /\ (edge_log[x].kind = edge_log[y].kind
               /\ edge_log[x].kind \in {"contig", "addi"}) =>
                  \/ edge_log[x].id < edge_log[y].id
                  \/ /\ edge_log[x].id = edge_log[y].id
                     /\ edge_log[x].pos < edge_log[y].pos
    /\ \A y \in 1..Len(edge_log) :
           edge_log[y].kind \in {"contig", "addi"} =>
               \/ edge_log[y].pos = 0
               \/ /\ y > 1
                  /\ edge_log[y - 1].kind = edge_log[y].kind
                  /\ edge_log[y - 1].id = edge_log[y].id
                  /\ edge_log[y - 1].pos = edge_log[y].pos - 1

\* no record of iterative_edges is in the file before the read pass is over
NoEarlyDrain ==
    (\E x \in 1..Len(edge_log) : edge_log[x].kind = "c4") =>
        pc \in {"drain", "done", "aborted"}

ContigPart(log) == SelectSeq(log, LAMBDA e : e.kind # "c4")

\* once the read pass has started, no header and no contig record is written
NoLateContig ==
    pc \in {"r_join", "r_scan", "drain", "done"} =>
        ContigPart(edge_log') = ContigPart(edge_log)

\* C3: the records of edges.0 are, in this order, the header, the edges of
\* the primary contigs in input order and window order, the edges of the
\* additional contigs, the edges of iterative_edges; none of the latter is
\* written before the read pass has ended, and no contig edge after it began.
C3_RecordOrder == [](RecordsOrdered /\ NoEarlyDrain) /\ [][NoLateContig]_vars

\* a finished run with a header, two primary batches, additional contigs
\* and drained edges in the file
C3_Witness ==
    /\ pc = "done"
    /\ \A kind \in {"header", "contig", "addi", "c4"} :
           \E x \in 1..Len(edge_log) : edge_log[x].kind = kind
    /\ \E x \in 1..Len(edge_log) :
           edge_log[x].kind = "contig" /\ edge_log[x].id > BatchCap

\* ------------------------------------------------------------------------
\* C6
\* ------------------------------------------------------------------------

Canonical(key) == ~KmerLess(ReverseComplement(key), key)

AtKey(w) == wk[w].pc \in {"lock", "load", "store", "unlock"}

\* C6: every key of iterative_edges is canonical, key <= its reverse
\* complement; at every emission rev_kmer is the reverse complement of kmer,
\* both of length k + s + 1, and the key is the smaller of the two.
C6_CanonicalKeys ==
    /\ \A key \in DOMAIN iterative_edges : Canonical(key) /\ Len(key) = EdgeLen
    /\ \A w \in Workers :
           AtKey(w) =>
               /\ Len(wk[w].st.kmer) = EdgeLen
               /\ wk[w].st.rev_kmer = ReverseComplement(wk[w].st.kmer)
               /\ wk[w].key \in {wk[w].st.kmer, wk[w].st.rev_kmer}
               /\ ~KmerLess(wk[w].st.kmer, wk[w].key)
               /\ ~KmerLess(wk[w].st.rev_kmer, wk[w].key)

\* an emission whose key is rev_kmer, not kmer, has been counted
C6_Witness ==
    \E w \in Workers :
        /\ wk[w].pc = "unlock"
        /\ wk[w].key # wk[w].st.kmer
        /\ iterative_edges[wk[w].key] >= 1

\* ------------------------------------------------------------------------
\* C7
\* ------------------------------------------------------------------------

\* C7: a read shorter than k + s + 1 increments nothing in iterative_edges,
\* is never at an emission, and is never written to rr.pb.
C7_ShortReadNoEffect ==
    /\ \A r \in ReadIds :
           Len(ReadBases(r)) < EdgeLen => incs[r] = <<>> /\ ~Written(r)
    /\ \A w \in Workers :
           AtKey(w) => Len(cur_package[wk[w].i].bases) >= EdgeLen

\* a batch with a short read that hits crusial_kmers and an aligned read has
\* been scanned and written
C7_Witness ==
    /\ pc = "r_join"
    /\ num_total_reads > 0
    /\ \E x \in DOMAIN cur_package :
           /\ Len(cur_package[x].bases) < EdgeLen
           /\ Len(cur_package[x].bases) >= k_
           /\ PrefixKmer(cur_package[x].bases, k_) \in DOMAIN crusial_kmers
           /\ cur_package[x].id <= num_total_reads
    /\ \E y \in DOMAIN is_aligned : is_aligned[y]
    /\ output_read_file # <<>>

\* ------------------------------------------------------------------------
\* C8
\* ------------------------------------------------------------------------

\* the reads among the first n that performed an increment, in input order
RECURSIVE IncrementingReads(_)
IncrementingReads(n) ==
    IF n = 0 THEN <<>>
    ELSE IncrementingReads(n - 1) \o (IF incs[n] # <<>> THEN <<n>> ELSE <<>>)

\* C8: rr.pb holds exactly the reads whose scan performed an increment, each
\* once, in the order of the read file, whatever the order the scans ended.
C8_FilteredReads ==
    /\ WrittenIds = IncrementingReads(num_total_reads)
    /\ \A x \in 1..Len(output_read_file) :
           output_read_file[x].bases = ReadBases(output_read_file[x].id)
    /\ pc = "done" => num_total_reads = Len(input.reads)

\* two reads of one batch are in rr.pb, the later one's scan ended first
C8_Witness ==
    /\ pc = "done"
    /\ \E x, y \in 1..Len(finished) :
           /\ x < y
           /\ finished[x] > finished[y]
           /\ Written(finished[x])
           /\ Written(finished[y])

\* ------------------------------------------------------------------------
\* C9
\* ------------------------------------------------------------------------

IsSingleContigRun ==
    /\ input.kmer_k = 3
    /\ input.step = 2
    /\ input.contigs = <<ACGTAC>>
    /\ input.multi = <<10>>
    /\ ~input.has_addi
    /\ input.reads = <<>>

\* C9 as stated: k = 3, s = 2, the contig ACGTAC with multiplicity 10 and no
\* reads give the header 5, 2 and one record of 2 words, and an empty rr.pb.
C9_SingleContigTwoWords ==
    (IsSingleContigRun /\ pc = "done") =>
        /\ Len(output_edge_file) = 2 + 2
        /\ output_edge_file[1] = ToWord(5)
        /\ output_edge_file[2] = ToWord(2)
        /\ output_read_file = <<>>

\* C9 amended: the header is 5, 1 and the one record has 1 word, W being
\* ceil((6 * 2 + 16) / 32) = 1; rr.pb is empty.
C9_SingleContigOneWord ==
    (IsSingleContigRun /\ pc = "done") =>
        /\ Len(output_edge_file) = 2 + 1
        /\ output_edge_file[1] = ToWord(5)
        /\ output_edge_file[2] = ToWord(1)
        /\ Len(edge_log) = 2
        /\ edge_log[2].kind = "contig"
        /\ output_read_file = <<>>

C9_Witness == IsSingleContigRun /\ pc = "done" /\ Len(edge_log) = 2

\* ------------------------------------------------------------------------
\* The read pass from the top of a later iteration of its batch loop
\* ------------------------------------------------------------------------
\* The initial states are those of the program at pthread_join after
\* input.carried.times copies of input.carried.read have gone through the
\* loop: input.reads is the rest of the read file, and rr.pb, incs and
\* finished hold what is appended from there on.

\* the keys one read increments, in the order of its scan
RECURSIVE EmittedKeys(_, _, _, _)
EmittedKeys(bases, k, s, st) ==
    IF st.at # "emit" THEN <<>>
    ELSE <<CanonicalKey(st.kmer, st.rev_kmer)>>
         \o EmittedKeys(bases, k, s, Phase2Next(bases, k, s, st))

KeysOfRead(bases, k, s, c3) ==
    IF SkipRead(Len(bases)) THEN <<>>
    ELSE EmittedKeys(bases, k, s, Phase2Init(bases, k, s, c3))

CountIn(seq, key) == Cardinality({x \in 1..Len(seq) : seq[x] = key})

\* crusial_kmers after the primary pass over contigs x..Len(contigs)
RECURSIVE BuildAll(_, _, _, _, _)
BuildAll(contigs, k, s, x, m) ==
    IF x > Len(contigs) THEN m
    ELSE LET bases == MapSeq(contigs[x])
             m1 == IF Len(bases) < k THEN m
                   ELSE MapPut(m, PrefixKmer(bases, k), PrefixHint(bases, k, s))
             m2 == IF Len(bases) > k
                   THEN MapPut(m1, SuffixKmer(bases, k), SuffixHint(bases, k, s))
                   ELSE m1
         IN BuildAll(contigs, k, s, x + 1, m2)

\* the edge records of the primary pass over contigs x..Len(contigs)
RECURSIVE EmitAll(_, _, _, _)
EmitAll(inp, x, file, log) ==
    IF x > Len(inp.contigs) THEN [file |-> file, log |-> log]
    ELSE LET bases == MapSeq(inp.contigs[x])
             r == ContigEdges(bases, inp.kmer_k, inp.step, inp.multi[x])
             W == WordsPerEdge(inp.kmer_k, inp.step)
             m == Rescale(Len(bases), inp.kmer_k, inp.step, inp.multi[x])
         IN EmitAll(inp, x + 1, file \o Flatten(r.edges),
                    log \o Tuple([p \in 1..Len(r.edges) |->
                                     [kind |-> "contig", id |-> x, pos |-> p - 1,
                                      words |-> W, multi |-> m]]))

\* iterative_edges after times scans of one read, each increment saturating
CarriedEdges(inp, c3) ==
    LET keys == KeysOfRead(MapSeq(inp.carried.read), inp.kmer_k, inp.step, c3)
    IN IF inp.carried.times = 0 THEN EmptyMap
       ELSE [key \in {keys[x] : x \in 1..Len(keys)} |->
                Min(kMaxMulti_t, inp.carried.times * CountIn(keys, key))]

InitReadPass(inp) ==
    LET c3 == BuildAll(inp.contigs, inp.kmer_k, inp.step, 1, EmptyMap)
        W == WordsPerEdge(inp.kmer_k, inp.step)
        out == EmitAll(inp, 1, <<ToWord(inp.kmer_k + inp.step), ToWord(W)>>,
                       <<[kind |-> "header", id |-> 0, pos |-> 0, words |-> 2,
                          multi |-> 0]>>)
        last == Tuple([x \in 1..Min(BatchCap, inp.carried.times) |->
                          [bases |-> MapSeq(inp.carried.read), id |-> 0]])
    IN /\ input = inp
       /\ opened = FilesOpened(inp.has_addi)
       /\ exit_status = "running"
       /\ file_pos = [contigs |-> Len(inp.contigs), addi |-> 0, reads |-> 0]
       /\ pc = "r_join"
       /\ is_addi_contigs = FALSE
       /\ is_first_round = FALSE
       /\ input_thread_index = 0
       /\ packages = [x \in {0, 1} |-> IF x = 1 THEN last ELSE <<>>]
       /\ input_thread = Created("reads", 0)
       /\ eof = FALSE
       /\ crusial_kmers = c3
       /\ iterative_edges = CarriedEdges(inp, c3)
       /\ locked = {}
       /\ c3_stage = Tuple([x \in 1..Len(inp.contigs) |-> 2])
       /\ emit_i = Len(inp.contigs)
       /\ wk = Tuple([w \in 1..(inp.num_cpu_threads - 1) |-> IdleWorker])
       /\ read_state = Tuple([x \in 1..Len(last) |-> "done"])
       /\ is_aligned = Tuple([x \in 1..Len(last) |->
                                 KeysOfRead(last[x].bases, inp.kmer_k, inp.step, c3) # <<>>])
       /\ num_aligned_reads =
              IF KeysOfRead(MapSeq(inp.carried.read), inp.kmer_k, inp.step, c3) # <<>>
              THEN inp.carried.times ELSE 0
       /\ num_total_reads = inp.carried.times
       /\ drain_left = {}
       /\ output_edge_file = out.file
       /\ output_read_file = <<>>
       /\ edge_log = out.log
       /\ incs = Tuple([r \in 1..Len(inp.reads) |-> <<>>])
       /\ finished = <<>>
       /\ assert_failed = FALSE

\* one contig; three more reads, in both strands, that all count the same keys
SatInput == Input(3, 1, <<AAACCC>>, <<5>>, <<>>, <<>>, <<AAACCC, GGGTTT, AAACCC>>)

\* numbers of earlier copies of the read: none, and around kMaxMulti_t
CarriedTimes == {0, 65533, 65534, 70000}

InitSat ==
    \E T \in 2..MaxThreads, p \in CarriedTimes :
        InitReadPass([WithThreads(SatInput, T) EXCEPT
                          !.carried = [read |-> AAACCC, times |-> p]])

NextSat ==
    \/ ReadReadsThread
    \/ ReadJoinBreak
    \/ ReadJoinSwap
    \/ \E w \in Workers, x \in DOMAIN read_state : StartRead(w, x)
    \/ \E w \in Workers : GetRefWithLock(w)
    \/ \E w \in Workers : LoadMulti(w)
    \/ \E w \in Workers : StoreMulti(w)
    \/ \E w \in Workers : Unlock(w)
    \/ WriteReads
    \/ \E key \in drain_left : DrainEdge(key)
    \/ Finish

SpecSat == InitSat /\ [][NextSat]_vars

\* ------------------------------------------------------------------------
\* C4
\* ------------------------------------------------------------------------

RequestsOf(r) == KeysOfRead(ReadBases(r), k_, s_, crusial_kmers)

CarriedRequests == KeysOfRead(MapSeq(input.carried.read), k_, s_, crusial_kmers)

RECURSIVE SumRequests(_, _)
SumRequests(key, n) ==
    IF n = 0 THEN input.carried.times * CountIn(CarriedRequests, key)
    ELSE CountIn(RequestsOf(n), key) + SumRequests(key, n - 1)

\* the number of increments of key that the scans of all reads ask for
Requested(key) == SumRequests(key, Len(input.reads))

RequestedKeys ==
    {CarriedRequests[x] : x \in 1..(IF input.carried.times > 0
                                      THEN Len(CarriedRequests) ELSE 0)}
    \cup UNION {{RequestsOf(r)[x] : x \in 1..Len(RequestsOf(r))} : r \in ReadIds}

\* C4: after the read pass the counts of iterative_edges do not depend on
\* the interleaving of the worker threads: every read has made exactly the
\* increments of its scan, and every key holds min(kMaxMulti_t, the number
\* of increments asked for it); none is lost, none is made twice.
C4_CountsScheduleFree ==
    pc \in {"drain", "done"} =>
        /\ \A r \in ReadIds : incs[r] = RequestsOf(r)
        /\ DOMAIN iterative_edges = RequestedKeys
        /\ \A key \in RequestedKeys :
               iterative_edges[key] = Min(kMaxMulti_t, Requested(key))

\* a worker waits for the lock of a key while another worker, in its locked
\* section on that key, has stored its increment
C4_Witness ==
    \E w1, w2 \in Workers :
        /\ w1 # w2
        /\ wk[w1].pc = "lock"
        /\ wk[w2].pc = "unlock"
        /\ wk[w1].key = wk[w2].key
        /\ wk[w2].key \in locked
        /\ iterative_edges[wk[w2].key] = wk[w2].multi + 1

\* ------------------------------------------------------------------------
\* C5
\* ------------------------------------------------------------------------

CountsBounded ==
    \A key \in DOMAIN iterative_edges :
        iterative_edges[key] >= 0 /\ iterative_edges[key] <= kMaxMulti_t

\* a stored counter never decreases, and one at kMaxMulti_t stays there
CountsStick ==
    \A key \in DOMAIN iterative_edges :
        /\ key \in DOMAIN iterative_edges'
        /\ iterative_edges'[key] >= iterative_edges[key]
        /\ iterative_edges[key] = kMaxMulti_t => iterative_edges'[key] = kMaxMulti_t

\* C5: in the read pass no counter of iterative_edges exceeds kMaxMulti_t =
\* 65535, and a counter that has reached it keeps it under further
\* increments: it saturates and never wraps.
C5_Saturates == []CountsBounded /\ [][CountsStick]_vars

\* an increment has been made on a counter that was already at kMaxMulti_t
C5_Witness ==
    \E w \in Workers :
        /\ wk[w].pc = "unlock"
        /\ wk[w].multi = kMaxMulti_t
        /\ iterative_edges[wk[w].key] = kMaxMulti_t

\* ------------------------------------------------------------------------
\* Runs over a range of k and s, for the encoding of the edge records
\* ------------------------------------------------------------------------

\* the largest kmer_k tried
MaxEncK == 14

\* the largest step tried below the largest step the hints have room for
MaxEncS == 2

\* the largest step whose hint fits the 58 high bits of s_seq
kMaxStep == 29

EncSteps == (1..MaxEncS) \cup {kMaxStep}

\* a sequence of one letter, or of five letters in turn, in an order whose
\* reverse complement is none of its rotations
Pattern(p, len) ==
    Tuple([x \in 1..len |->
              IF p = "cyc" THEN <<"A", "C", "T", "G", "G">>[(x % 5) + 1] ELSE p])

\* a primary contig of three windows, an additional contig of one window,
\* and a read that is the primary contig
EncInput(k, s, p, m) ==
    Input(k, s, <<Pattern(p, k + s + 3)>>, <<m>>, <<Pattern(p, k + s + 1)>>, <<m>>,
          <<Pattern(p, k + s + 3)>>)

InitEnc ==
    \E k \in 1..MaxEncK, s \in EncSteps, p \in {"T", "cyc"}, m \in {1, 500000} :
        InitWith(WithThreads(EncInput(k, s, p, m), 2))

SpecEnc == InitEnc /\ [][Next]_vars

\* ------------------------------------------------------------------------
\* C10
\* ------------------------------------------------------------------------

RECURSIVE WordsBefore(_)
WordsBefore(x) == IF x = 0 THEN 0 ELSE edge_log[x].words + WordsBefore(x - 1)

\* the words of the x-th record of edges.0
RecordAt(x) ==
    SubSeq(output_edge_file, WordsBefore(x - 1) + 1, WordsBefore(x))

\* bit b (from 1, the most significant bit of word 0) of a record
BitAt(rec, b) == rec[((b - 1) \div 32) + 1][((b - 1) % 32) + 1]

\* the bases held by the n two-bit slots of a record, the slot at the most
\* significant bits of word 0 being the last base
DecodeBases(rec, n) ==
    Tuple([x \in 1..n |->
              2 * BitAt(rec, 2 * (n - x) + 1) + BitAt(rec, 2 * (n - x) + 2)])

\* the bases the x-th record stands for, for a record of a contig
WindowOf(x) ==
    LET e == edge_log[x]
        src == IF e.kind = "addi" THEN input.addi ELSE input.contigs
    IN SubSeq(MapSeq(src[e.id]), e.pos + 1, e.pos + EdgeLen)

RecordWellFormed(x) ==
    LET e == edge_log[x]
        rec == RecordAt(x)
        W == CeilWords(EdgeLen)
    IN /\ e.words = W
       /\ Len(rec) = W
       /\ WordsPerEdge(k_, s_) = W
       /\ edge_log[1].kind = "header" => output_edge_file[2] = ToWord(W)
       /\ 2 * EdgeLen + 16 <= 32 * W
       /\ \A b \in (2 * EdgeLen + 1)..(32 * W - 16) : BitAt(rec, b) = 0
       /\ e.multi <= kMaxMulti_t
       /\ Low16(rec[W]) = e.multi
       /\ IF e.kind = "c4"
          THEN /\ DecodeBases(rec, EdgeLen) \in DOMAIN iterative_edges
               /\ iterative_edges[DecodeBases(rec, EdgeLen)] = e.multi
          ELSE DecodeBases(rec, EdgeLen) = WindowOf(x)

\* C10: every edge record, of a contig or of iterative_edges, has W =
\* ceil(((k + s + 1) * 2 + 16) / 32) words, the W of the header; the bases
\* are in its first (k + s + 1) * 2 bits, the multiplicity in the low 16
\* bits of its last word, the two do not overlap, every other bit is zero,
\* and no assertion on the multiplicity field fails.
C10_RecordLayout ==
    /\ LogMatchesFile
    /\ ~assert_failed
    /\ pc # "aborted"
    /\ \A x \in 1..Len(edge_log) : edge_log[x].kind # "header" => RecordWellFormed(x)

\* a finished run whose records fill their words to the last bit, with a
\* slid contig record, a capped multiplicity and a drained record
C10_Witness ==
    /\ pc = "done"
    /\ 2 * EdgeLen + 16 = 32 * WordsPerEdge(k_, s_)
    /\ WordsPerEdge(k_, s_) > 1
    /\ \E x \in 1..Len(edge_log) :
           edge_log[x].kind = "contig" /\ edge_log[x].pos = 1
           /\ edge_log[x].multi = kMaxMulti_t
    /\ \E x \in 1..Len(edge_log) : edge_log[x].kind = "c4"
    /\ \E b \in 1..(2 * EdgeLen) : BitAt(RecordAt(Len(edge_log)), b) = 1

\* ------------------------------------------------------------------------
\* C11
\* ------------------------------------------------------------------------

\* the x-th record is of a contig, at a window after the first
IsSlidRecord(x) ==
    edge_log[x].kind \in {"contig", "addi"} /\ edge_log[x].pos >= 1

\* the record of the window of record x assembled by the first-edge procedure
FromScratch(x) == FirstEdge(WindowOf(x), k_, s_, edge_log[x].multi)

\* the record the sliding update makes of record x - 1 and the base that
\* enters the window of record x
SlidFromPrevious(x) ==
    OrMulti(SlideBases(RecordAt(x - 1), k_ + s_, edge_log[x].multi,
                       WindowOf(x)[EdgeLen]),
            edge_log[x].multi)

\* C11: every record of a contig at a window p + 1 >= 1, which the sliding
\* update made of the record at p, is word for word the record that the
\* first-edge procedure assembles from the bases of window p + 1 and the
\* contig's multiplicity; the assertion on the multiplicity field holds.
\* The records are compared where the loop over the batch stands, after
\* each contig: edges.0 is only appended to.
C11_SlideEqualsScratch ==
    /\ ~assert_failed
    /\ pc = "c_emit" =>
           \A x \in 1..Len(edge_log) :
               IsSlidRecord(x) =>
                   /\ RecordAt(x) = SlidFromPrevious(x)
                   /\ RecordAt(x) = FromScratch(x)

\* a contig of which the third window has been written by two slides, in
\* records of several words, a base other than A leaving the window and
\* another crossing from word 0 to word 1
C11_Witness ==
    \E x \in 1..Len(edge_log) :
        /\ edge_log[x].kind = "contig"
        /\ edge_log[x].pos = 2
        /\ WordsPerEdge(k_, s_) >= 2
        /\ EdgeLen > 16
        /\ pc = "c_emit"
        /\ WindowOf(x - 1)[1] # 0
        /\ WindowOf(x - 1)[EdgeLen - 15] # 0
        /\ WindowOf(x) # WindowOf(x - 1)

\* ------------------------------------------------------------------------
\* C12
\* ------------------------------------------------------------------------

\* the contigs of a kind of record, as they are in the input files
ContigsOf(kind) == IF kind = "addi" THEN input.addi ELSE input.contigs

\* the places in the log of the records of contig id of a kind
RecordsOf(kind, id) ==
    {x \in 1..Len(edge_log) : edge_log[x].kind = kind /\ edge_log[x].id = id}

\* max(0, L - (k + s))
ExpectedEdges(len) == IF len > k_ + s_ THEN len - (k_ + s_) ELSE 0

\* the records of the contig are there, all of them, one per window from 0
\* to L - (k+s+1), next to each other in this order, with one multiplicity
\* in the log and in the low 16 bits of their last word
AllEdgesOf(kind, id) ==
    LET recs == RecordsOf(kind, id)
        n == ExpectedEdges(Len(ContigsOf(kind)[id]))
    IN /\ Cardinality(recs) = n
       /\ \A x \in recs : edge_log[x].pos \in 0..(n - 1)
       /\ \A x, y \in recs :
              /\ y = x + 1 => edge_log[y].pos = edge_log[x].pos + 1
              /\ y - x = edge_log[y].pos - edge_log[x].pos
              /\ edge_log[x].multi = edge_log[y].multi
              /\ Low16(RecordAt(x)[Len(RecordAt(x))]) = edge_log[y].multi

\* the contigs of a kind whose iteration of the loop over the batch is over
Emitted(kind) ==
    LET all == 1..Len(ContigsOf(kind))
    IN IF pc = "start" THEN {}
       ELSE IF pc = "ret_contigs"
       THEN (IF is_addi_contigs \/ kind = "contig" THEN all ELSE {})
       ELSE IF pc \notin {"c_join", "c_build", "c_emit"} THEN all
       ELSE IF is_addi_contigs # (kind = "addi")
       THEN (IF kind = "contig" THEN all ELSE {})
       ELSE {id \in all :
                \/ \E x \in 1..Len(cur_package) :
                       /\ cur_package[x].id = id
                       /\ pc = "c_join" \/ (pc = "c_emit" /\ x <= emit_i)
                \/ Len(cur_package) > 0 /\ id < cur_package[1].id}

\* C12: a contig of length L, primary or additional, writes max(0, L-(k+s))
\* records, one per window from 0 to L-(k+s+1) in increasing order, all with
\* the same multiplicity; a contig of length k+s or less writes none; a
\* contig whose iteration has not run has written none.
C12_EdgesPerContig ==
    \A kind \in {"contig", "addi"} : \A id \in 1..Len(ContigsOf(kind)) :
        IF id \in Emitted(kind)
        THEN AllEdgesOf(kind, id)
        ELSE RecordsOf(kind, id) = {}

\* a finished run in which a contig of length k + s wrote no record, one of
\* length k + s + 1 wrote one and one of k + s + 2 wrote two
C12_Witness ==
    /\ pc = "done"
    /\ \A d \in 0..2 :
           \E kind \in {"contig", "addi"} : \E id \in 1..Len(ContigsOf(kind)) :
               /\ Len(ContigsOf(kind)[id]) = k_ + s_ + d
               /\ Cardinality(RecordsOf(kind, id)) = d

\* ------------------------------------------------------------------------
\* C13
\* ------------------------------------------------------------------------

\* the pass over the primary contigs is over
PrimaryPassOver ==
    /\ pc # "start"
    /\ pc \in {"c_join", "c_build", "c_emit"} => is_addi_contigs

PrimaryIds == 1..Len(input.contigs)

PrimaryBases(c) == MapSeq(input.contigs[c])

\* the first k bases of a contig
LeadingKmer(c) == SubSeq(PrimaryBases(c), 1, k_)

\* the reverse complement of the last k bases of a contig
TrailingKmerRC(c) ==
    ReverseComplement(SubSeq(PrimaryBases(c), Len(PrimaryBases(c)) - k_ + 1,
                             Len(PrimaryBases(c))))

\* the primary contigs of which key is a tip: the leading k-mer of one of
\* length >= least, or the reverse complement of the trailing k-mer of one
\* of length > k
Producers(key, least) ==
    {c \in PrimaryIds :
        \/ Len(PrimaryBases(c)) >= least /\ LeadingKmer(c) = key
        \/ Len(PrimaryBases(c)) > k_ /\ TrailingKmerRC(c) = key}

\* the hint of key has the length field of one of the contigs it is a tip of
LengthFromProducer(key) ==
    \E c \in Producers(key, k_) :
        HintLength(crusial_kmers[key]) = Min(s_, Len(PrimaryBases(c)) - k_)

\* C13 as stated: after the primary pass, for every primary contig of length
\* >= k, the one of length exactly k included, both its leading k-mer and
\* the reverse complement of its trailing k-mer are keys of crusial_kmers,
\* each with a hint whose length field is min(s, L - k) of a contig that
\* produced the key.
C13_BothTipsFromLengthK ==
    PrimaryPassOver =>
        \A c \in PrimaryIds :
            Len(PrimaryBases(c)) >= k_ =>
                /\ LeadingKmer(c) \in DOMAIN crusial_kmers
                /\ LengthFromProducer(LeadingKmer(c))
                /\ TrailingKmerRC(c) \in DOMAIN crusial_kmers
                /\ LengthFromProducer(TrailingKmerRC(c))

\* C13 amended: after the primary pass, the leading k-mer of every primary
\* contig of length >= k and the reverse complement of the trailing k-mer of
\* every primary contig of length > k are keys of crusial_kmers; a contig of
\* length exactly k enters its leading k-mer only. At all times every key
\* is such a tip and its hint has the length field min(s, L - k) of a
\* contig that produced it.
C13_BothTipsAboveLengthK ==
    /\ \A key \in DOMAIN crusial_kmers :
           /\ Len(key) = k_
           /\ Producers(key, k_) # {}
           /\ LengthFromProducer(key)
    /\ PrimaryPassOver =>
           \A c \in PrimaryIds :
               /\ Len(PrimaryBases(c)) >= k_ =>
                      LeadingKmer(c) \in DOMAIN crusial_kmers
               /\ Len(PrimaryBases(c)) > k_ =>
                      TrailingKmerRC(c) \in DOMAIN crusial_kmers

\* after the primary pass: a contig of length k has its leading k-mer in
\* crusial_kmers with a hint of length 0 and not the reverse complement of
\* its trailing k-mer, and a contig shorter than k + s has both its tips in
\* it with hints of length L - k < s
C13_Witness ==
    /\ PrimaryPassOver
    /\ \E c \in PrimaryIds :
           /\ Len(PrimaryBases(c)) = k_
           /\ LeadingKmer(c) \in DOMAIN crusial_kmers
           /\ HintLength(crusial_kmers[LeadingKmer(c)]) = 0
           /\ TrailingKmerRC(c) \notin DOMAIN crusial_kmers
    /\ \E c \in PrimaryIds :
           /\ Len(PrimaryBases(c)) > k_
           /\ LeadingKmer(c) \in DOMAIN crusial_kmers
           /\ TrailingKmerRC(c) \in DOMAIN crusial_kmers
           /\ LeadingKmer(c) # TrailingKmerRC(c)

\* ------------------------------------------------------------------------
\* The start of main: ParseOptions and InitGlobalData
\* ------------------------------------------------------------------------

\* Kmer<KMER_NUM_UINT64>::max_size()
K_MAX == 128

\* the formats InitGlobalData knows
ReadFormats == {"binary", "fasta", "fastq"}

\* the chain of tests of ParseOptions after desc.Parse: some test throws
OptionsThrow(o) ==
    \/ o.step + o.kmer_k >= K_MAX
    \/ o.contigs_file = ""
    \/ o.contigs_multi_file = ""
    \/ o.read_file = ""
    \/ o.kmer_k <= 0
    \/ o.step <= 0
    \/ o.output_prefix = ""
    \/ o.read_format \notin ReadFormats
    \/ o.max_read_len = 0

\* ParseOptions: desc.Parse, the tests, the auto detection of the threads;
\* on an exception the message, the usage and exit(1)
ParseOptions ==
    /\ pc = "parse"
    /\ IF ~input.argv_ok \/ OptionsThrow(input)
       THEN /\ pc' = "exit_1"
            /\ exit_status' = 1
            /\ UNCHANGED input
       ELSE /\ pc' = "init"
            /\ UNCHANGED exit_status
            /\ IF input.num_cpu_threads = 0
               THEN input' = [input EXCEPT !.num_cpu_threads = input.omp_max_threads]
               ELSE UNCHANGED input
    /\ UNCHANGED <<opened, ioVars, is_addi_contigs, is_first_round, input_thread_index,
                   c3_stage, emit_i, mapVars, readVars, outVars>>

\* InitGlobalData: the globals, the read format, the files
InitGlobalData ==
    /\ pc = "init"
    /\ IF input.read_format \notin ReadFormats
       THEN /\ pc' = "exit_1"
            /\ exit_status' = 1
            /\ UNCHANGED opened
       ELSE /\ pc' = "start"
            /\ opened' = FilesOpened(input.addi_contig_file # "")
            /\ UNCHANGED exit_status
    /\ UNCHANGED <<input, ioVars, is_addi_contigs, is_first_round, input_thread_index,
                   c3_stage, emit_i, mapVars, readVars, outVars>>

\* the command line, and what omp_get_max_threads() answers on the machine
CommandLine(argv_ok, cf, mf, af, rf, fmt, t, k, s, l, o, omp) ==
    [argv_ok |-> argv_ok, contigs_file |-> cf, contigs_multi_file |-> mf,
     addi_contig_file |-> af, addi_multi_file |-> af, read_file |-> rf,
     read_format |-> fmt, num_cpu_threads |-> t, kmer_k |-> k, step |-> s,
     max_read_len |-> l, output_prefix |-> o, omp_max_threads |-> omp]

\* the state at the entry of main
InitOpt ==
    /\ \E argv_ok \in BOOLEAN, cf \in {"", "contigs.fa"}, mf \in {"", "multi.txt"},
          af \in {"", "addi.fa"}, rf \in {"", "-"},
          fmt \in {"", "fasta", "binary", "sam"}, t \in 0..MaxThreads,
          k \in {0, 3, 99}, s \in {0, 1, kMaxStep, kMaxStep + 1},
          l \in {0, 100}, o \in {"", "out"}, omp \in 1..MaxThreads :
           input = CommandLine(argv_ok, cf, mf, af, rf, fmt, t, k, s, l, o, omp)
    /\ opened = {}
    /\ exit_status = "running"
    /\ file_pos = [contigs |-> 0, addi |-> 0, reads |-> 0]
    /\ pc = "parse"
    /\ is_addi_contigs = FALSE
    /\ is_first_round = FALSE
    /\ input_thread_index = 0
    /\ packages = [x \in {0, 1} |-> <<>>]
    /\ input_thread = [state |-> "none", kind |-> "none", slot |-> 0]
    /\ eof = FALSE
    /\ crusial_kmers = EmptyMap
    /\ iterative_edges = EmptyMap
    /\ locked = {}
    /\ c3_stage = <<>>
    /\ emit_i = 0
    /\ wk = <<>>
    /\ read_state = <<>>
    /\ is_aligned = <<>>
    /\ num_aligned_reads = 0
    /\ num_total_reads = 0
    /\ drain_left = {}
    /\ output_edge_file = <<>>
    /\ output_read_file = <<>>
    /\ edge_log = <<>>
    /\ incs = <<>>
    /\ finished = <<>>
    /\ assert_failed = FALSE

NextOpt ==
    \/ ParseOptions
    \/ InitGlobalData

SpecOpt == InitOpt /\ [][NextOpt]_vars

\* ------------------------------------------------------------------------
\* C14
\* ------------------------------------------------------------------------

\* the constraints the options are stated to satisfy
StatedConstraints(o) ==
    /\ o.argv_ok
    /\ 0 < o.step /\ o.step <= kMaxStep
    /\ 0 < o.kmer_k
    /\ o.kmer_k + o.step < K_MAX
    /\ o.num_cpu_threads >= 2
    /\ o.contigs_file # "" /\ o.contigs_multi_file # "" /\ o.read_file # ""
    /\ o.output_prefix # "" /\ o.max_read_len # 0
    /\ o.read_format \in ReadFormats

\* C14: a command line that violates a stated constraint (step outside
\* 0 < s <= 29, kmer_k <= 0, kmer_k + step >= K_MAX, an effective number of
\* threads below 2, a missing required option, an unknown read_format) ends
\* in ParseOptions with exit status 1 and no file opened or created; what
\* gets past ParseOptions satisfies all of them.
C14_InvalidOptionsRejected ==
    /\ pc \in {"init", "start"} => StatedConstraints(input)
    /\ pc = "exit_1" => opened = {} /\ exit_status = 1
    /\ opened # {} => StatedConstraints(input)

\* ------------------------------------------------------------------------
\* C15
\* ------------------------------------------------------------------------

\* the n two-bit slots of a record read from the most significant bits of
\* word 0 toward the lower bits
SlotsFromMsb(rec, n) ==
    Tuple([x \in 1..n |-> 2 * BitAt(rec, 2 * x - 1) + BitAt(rec, 2 * x)])

\* a sequence in the opposite order
Reversed(seq) == Tuple([x \in 1..Len(seq) |-> seq[Len(seq) + 1 - x]])

\* the low 16 bits of word W - 1 of a record
MultiOf(rec) == Low16(rec[Len(rec)])

\* the multiplicity a contig's records are to carry: rescaled and clamped
ClampedMulti(x) ==
    LET e == edge_log[x]
        mul == IF e.kind = "addi" THEN input.addi_multi ELSE input.multi
    IN Rescale(Len(ContigsOf(e.kind)[e.id]), k_, s_, mul[e.id])

\* record x gives back, as the bases decoded, its window or its key, and
\* its multiplicity
DecodesTo(x, decoded) ==
    IF edge_log[x].kind = "c4"
    THEN /\ decoded \in DOMAIN iterative_edges
         /\ MultiOf(RecordAt(x)) = iterative_edges[decoded]
    ELSE /\ decoded = WindowOf(x)
         /\ MultiOf(RecordAt(x)) = ClampedMulti(x)

\* C15 as stated: the slots of every record read from the most significant
\* bits of word 0 downward, the highest two bits being the first base, are
\* the (k+s+1)-mer of the record in first-to-last order, and the low 16
\* bits of word W - 1 are its clamped multiplicity.
C15_DecodesFirstBaseHigh ==
    \A x \in 1..Len(edge_log) :
        edge_log[x].kind # "header" =>
            DecodesTo(x, SlotsFromMsb(RecordAt(x), EdgeLen))

\* C15 amended: the highest two bits of word 0 are the last base of the
\* (k+s+1)-mer; the slots read from the most significant bits downward are
\* the (k+s+1)-mer in last-to-first order, so that reading them and
\* reversing gives the window of the contig, or the key of iterative_edges,
\* and the low 16 bits of word W - 1 are its clamped multiplicity.
C15_DecodesLastBaseHigh ==
    \A x \in 1..Len(edge_log) :
        edge_log[x].kind # "header" =>
            /\ DecodesTo(x, Reversed(SlotsFromMsb(RecordAt(x), EdgeLen)))
            /\ SlotsFromMsb(RecordAt(x), 1)[1] =
                   Reversed(SlotsFromMsb(RecordAt(x), EdgeLen))[EdgeLen]

\* a finished run with records of several words of a contig and of
\* iterative_edges whose bases are not the same read in both directions
C15_Witness ==
    /\ pc = "done"
    /\ WordsPerEdge(k_, s_) >= 2
    /\ \E x, y \in 1..Len(edge_log) :
           /\ edge_log[x].kind = "contig"
           /\ edge_log[y].kind = "c4"
           /\ \A z \in {x, y} :
                  SlotsFromMsb(RecordAt(z), EdgeLen)
                      # Reversed(SlotsFromMsb(RecordAt(z), EdgeLen))

\* ------------------------------------------------------------------------
\* C16
\* ------------------------------------------------------------------------

\* the smaller of the window R[j-s-1 .. j+k) of read r and its reverse
\* complement
WindowKey(r, j) ==
    LET w == SubSeq(ReadBases(r), j - s_, j + k_)
    IN IF KmerLess(w, ReverseComplement(w)) THEN w ELSE ReverseComplement(w)

\* the supported windows of read r whose canonical key is key
WindowsWithKey(r, key) == {j \in SupportedWindows(r) : WindowKey(r, j) = key}

\* C16 as stated: a read increments no key of iterative_edges more than
\* once, even if the same (k+s+1)-mer or its reverse complement is at
\* several of its supported windows.
C16_OncePerKey ==
    \A r \in ReadIds : \A x, y \in 1..Len(incs[r]) :
        x # y => incs[r][x] # incs[r][y]

\* C16 amended: a read increments once per supported window position, not
\* once per key: the number of increments it makes on a key is never more
\* than the number of its supported windows with that canonical key, and is
\* that number when the program is done; a key at n supported windows of
\* the read is incremented n times by it.
C16_OncePerWindow ==
    \A r \in ReadIds :
        /\ \A x \in 1..Len(incs[r]) :
               CountIn(incs[r], incs[r][x])
                   <= Cardinality(WindowsWithKey(r, incs[r][x]))
        /\ pc = "done" =>
               /\ Len(incs[r]) = Cardinality(SupportedWindows(r))
               /\ \A j \in SupportedWindows(r) :
                      CountIn(incs[r], WindowKey(r, j))
                          = Cardinality(WindowsWithKey(r, WindowKey(r, j)))

\* the program is done and a read has incremented one key twice, at two
\* windows of which one is the reverse complement of the other
C16_Witness ==
    /\ pc = "done"
    /\ \E r \in ReadIds : \E x, y \in 1..Len(incs[r]) :
           /\ x # y
           /\ incs[r][x] = incs[r][y]
           /\ Cardinality(WindowsWithKey(r, incs[r][x])) = 2
           /\ iterative_edges[incs[r][x]] = 2

\* ------------------------------------------------------------------------
\* C17
\* ------------------------------------------------------------------------

\* an I/O thread has been created and not yet joined
ThreadAlive == input_thread.state \in {"running", "finished"}

\* the main thread is in the loop body after pthread_create: the batch is
\* being processed by the workers or written out
Processing == pc \in {"c_build", "c_emit", "r_scan"}

\* the thread alive was given packages[input_thread_index], and the batch
\* in process is the other slot
SlotsApart ==
    /\ ThreadAlive => input_thread.slot = input_thread_index
    /\ Processing =>
           /\ ThreadAlive
           /\ CurSlot(input_thread_index) # input_thread.slot
           /\ CurSlot(input_thread_index) \in {0, 1}

\* a step that changes the content of a slot is the step of a running I/O
\* thread on the slot it was given, which is not the slot in process, or
\* the construction of the two empty packages at the entry of a pass
SlotWrittenByItsThread ==
    \A x \in {0, 1} :
        packages'[x] # packages[x] =>
            \/ /\ input_thread.state = "running"
               /\ input_thread'.state = "finished"
               /\ x = input_thread.slot
               /\ x = input_thread_index
               /\ Processing => x # CurSlot(input_thread_index)
            \/ /\ pc \in {"start", "ret_contigs"}
               /\ packages' = [y \in {0, 1} |-> <<>>]

\* the batch in process is the same before and after every step
BatchInProcessStable ==
    (Processing /\ Processing') =>
        packages'[CurSlot(input_thread_index')] = packages[CurSlot(input_thread_index)]

\* pthread_create happens only when no I/O thread is running: there is
\* none yet, or the last one has been joined, in this very step or before
OneThreadAtATime ==
    (input_thread'.state = "running" /\ input_thread' # input_thread) =>
        /\ input_thread.state \in {"none", "finished", "joined"}
        /\ input_thread.state = "finished" => pc \in {"c_join", "r_join"}

\* C17: in the contig pass and in the read pass, from pthread_create to the
\* matching pthread_join the I/O thread works on packages[input_thread_index]
\* and the main thread and the workers on packages[input_thread_index ^ 1];
\* no slot is filled or cleared by the I/O thread while it is processed or
\* written out, and there is at most one I/O thread at a time.
C17_DoubleBuffer ==
    /\ []SlotsApart
    /\ [][SlotWrittenByItsThread /\ BatchInProcessStable /\ OneThreadAtATime]_vars

\* a worker is in the middle of a read of one batch while the I/O thread
\* has filled the other slot with the next, different batch
C17_Witness ==
    /\ pc = "r_scan"
    /\ input_thread.state = "finished"
    /\ \E w \in Workers : AtKey(w)
    /\ packages[input_thread.slot] # <<>>
    /\ cur_package # <<>>
    /\ packages[input_thread.slot] # cur_package
    /\ input_thread.slot = input_thread_index

\* ------------------------------------------------------------------------
\* C18
\* ------------------------------------------------------------------------

\* the main thread is in a pass over contigs, or before or between them
InContigPasses == pc \in {"start", "c_join", "c_build", "c_emit", "ret_contigs"}

\* after the pass over the primary contigs, no step changes crusial_kmers
C3FrozenAfterPrimary == PrimaryPassOver => crusial_kmers' = crusial_kmers

\* no step of the contig passes changes iterative_edges
C4UntouchedByContigs == InContigPasses => iterative_edges' = iterative_edges

\* the pass over the additional contigs has written the edges of all of them
AddiEdgesWritten ==
    (is_addi_contigs /\ pc \notin {"c_join", "c_build", "c_emit", "aborted"}) =>
        \A id \in 1..Len(input.addi) : AllEdgesOf("addi", id)

\* C18: crusial_kmers is written only in the pass over the primary contigs:
\* the pass over the additional contigs and the read pass leave its keys
\* and hints as they are, while the additional contigs still get their
\* edges written; the contig passes leave iterative_edges empty.
C18_MapsWrittenInTheirPass ==
    /\ [](InContigPasses => iterative_edges = EmptyMap)
    /\ []AddiEdgesWritten
    /\ [][C3FrozenAfterPrimary /\ C4UntouchedByContigs]_vars

\* the program is done: crusial_kmers holds tips of primary contigs and not
\* the tips of an additional contig that has its edge in edges.0, and the
\* read pass has filled iterative_edges
C18_Witness ==
    /\ pc = "done"
    /\ crusial_kmers # EmptyMap
    /\ iterative_edges # EmptyMap
    /\ \E id \in 1..Len(input.addi) :
           /\ RecordsOf("addi", id) # {}
           /\ SubSeq(MapSeq(input.addi[id]), 1, k_) \notin DOMAIN crusial_kmers
           /\ ReverseComplement(SubSeq(MapSeq(input.addi[id]),
                                       Len(input.addi[id]) - k_ + 1,
                                       Len(input.addi[id])))
                  \notin DOMAIN crusial_kmers

\* ------------------------------------------------------------------------
\* C19
\* ------------------------------------------------------------------------

\* the bases of the read worker w is scanning
BasesOf(w) == cur_package[wk[w].i].bases

\* the regime of the re-synchronisation that led worker w to its emission
RegimeOf(w) ==
    LET d == wk[w].st.j - wk[w].st.last_j
    IN IF d < kResyncShort THEN 1 ELSE IF d < EdgeLen THEN 2 ELSE 3

\* at its emission at j, worker w holds the window R[j-s-1 .. j+k) in kmer
\* and its reverse complement in rev_kmer, and has read bases of the read only
InSyncAtEmission(w) ==
    LET st == wk[w].st
        window == SubSeq(BasesOf(w), st.j - s_, st.j + k_)
    IN /\ st.j - s_ - 1 >= 0
       /\ st.j + k_ <= Len(BasesOf(w))
       /\ Len(window) = EdgeLen
       /\ st.kmer = window
       /\ st.rev_kmer = ReverseComplement(window)
       /\ ResyncIndices(k_, s_, st.j, st.last_j) \subseteq 0..(Len(BasesOf(w)) - 1)
       /\ ResyncIndices(k_, s_, st.j, st.last_j) # {}

\* C19: at every emission of phase 2 at j, by whichever of the three
\* regimes kmer and rev_kmer were brought there, the first emission from
\* last_j = -k and the resized k-mers of phase 1 included, kmer is the window
\* R[j-s-1 .. j+k) of the read, rev_kmer its reverse complement, and every
\* base read on the way has an index in [0, L).
C19_ResyncGivesWindow ==
    \A w \in Workers : AtKey(w) => InSyncAtEmission(w)

\* a worker is at an emission it reached by the second regime, 8 positions
\* after the first emission of the read, which it reached by the full
\* rebuild and has counted
C19_Witness ==
    \E w \in Workers :
        /\ AtKey(w)
        /\ RegimeOf(w) = 2
        /\ wk[w].st.last_j >= s_ + 1
        /\ Len(incs[cur_package[wk[w].i].id]) >= 1
        /\ wk[w].st.last_j + k_ >= EdgeLen

\* ------------------------------------------------------------------------
\* A read file holding a read and its reverse complement
\* ------------------------------------------------------------------------

\* the length of the reads of the two-strand runs
SymLen == 6

ACACA == <<"A", "C", "A", "C", "A">>

\* the primary contig of a two-strand run
SymContigs == {AAACCC, ACACA, AAAC, AAC}

\* the reads of length SymLen over A and C
SymReads == [1..SymLen -> {"A", "C"}]

\* the characters of the reverse complement of a read
ReverseComplementChars(chars) ==
    Tuple([x \in 1..Len(chars) |->
              CASE chars[Len(chars) + 1 - x] = "A" -> "T"
                [] chars[Len(chars) + 1 - x] = "C" -> "G"
                [] chars[Len(chars) + 1 - x] = "G" -> "C"
                [] OTHER -> "A"])

SymInput(c, r) ==
    Input(3, 1, <<c>>, <<1>>, <<>>, <<>>, <<r, ReverseComplementChars(r)>>)

\* the read pass over a read and its reverse complement, C3 built from one
\* primary contig
InitSym ==
    \E c \in SymContigs, r \in SymReads :
        InitReadPass(WithThreads(SymInput(c, r), 2))

SpecSym == InitSym /\ [][NextSat]_vars

\* ------------------------------------------------------------------------
\* C20
\* ------------------------------------------------------------------------

\* read r2 is the reverse complement of read r1
OppositeStrands(r1, r2) == ReadBases(r2) = ReverseComplement(ReadBases(r1))

\* the two reads have made the same multiset of increments
SameIncrements(r1, r2) ==
    /\ Len(incs[r1]) = Len(incs[r2])
    /\ \A x \in 1..Len(incs[r1]) :
           CountIn(incs[r1], incs[r1][x]) = CountIn(incs[r2], incs[r1][x])

\* phase 1 labels k-mer position p of r1 exactly when it labels the
\* position L - k - p of r2, which holds the same k-mer in the other strand
MirrorLabels(r1, r2) ==
    \A p \in 0..(Len(ReadBases(r1)) - k_) :
        Labels(r1)[p + 1] = Labels(r2)[Len(ReadBases(r1)) - k_ - p + 1]

\* C20 as stated: for any C3 built from primary contigs and any read of
\* length >= k+s+1, the scan of the read and the scan of its reverse
\* complement make the same multiset of increments on canonical keys of
\* iterative_edges.
C20_StrandSymmetric ==
    pc = "done" =>
        \A r1, r2 \in ReadIds :
            OppositeStrands(r1, r2) => SameIncrements(r1, r2)

\* C20 amended: the scans of a read and of its reverse complement make the
\* same multiset of increments whenever phase 1 labels mirror-image
\* positions in the two, as it does for contig AAACCC with the reads AAACCC
\* and GGGTTT at k=3, s=1; phase 1 is not strand-symmetric in general (a
\* forward hit is taken before a reverse hit of the same position, and a
\* position labelled by a hint is not probed), and then the two scans may
\* make different increments.
C20_SymmetricWhenLabelsMirror ==
    pc = "done" =>
        /\ \A r1, r2 \in ReadIds :
               OppositeStrands(r1, r2) /\ MirrorLabels(r1, r2)
                   => SameIncrements(r1, r2)
        /\ input.contigs = <<AAACCC>> /\ input.reads[1] = AAACCC
               => MirrorLabels(1, 2) /\ SameIncrements(1, 2)

\* the run over contig AAACCC and the reads AAACCC and GGGTTT is done: the
\* labels of the two reads mirror each other and each read has made the
\* two increments of the other
C20_Witness ==
    /\ pc = "done"
    /\ input.contigs = <<AAACCC>>
    /\ input.reads = <<AAACCC, GGGTTT>>
    /\ MirrorLabels(1, 2)
    /\ Len(incs[1]) = 2
    /\ Len(incs[2]) = 2
    /\ SameIncrements(1, 2)

\* ------------------------------------------------------------------------
\* C21
\* ------------------------------------------------------------------------

\* phase 1 is run on read r
Scanned(r) == ~SkipRead(Len(ReadBases(r)))

\* the k-mer at position q of read r
KmerAt(r, q) == SubSeq(ReadBases(r), q + 1, q + k_)

\* the k-mer or its reverse complement occurs in a primary contig
OccursInPrimary(kmer) ==
    \E c \in 1..Len(input.contigs) :
        \/ IsSubstring(kmer, MapSeq(input.contigs[c]))
        \/ IsSubstring(ReverseComplement(kmer), MapSeq(input.contigs[c]))

\* every label of read r is at a k-mer position of the read whose k-mer
\* occurs, in one strand or the other, in a primary contig
LabelsSound(r) ==
    \A q \in 0..(Len(ReadBases(r)) - 1) :
        Labels(r)[q + 1] =>
            /\ q + k_ <= Len(ReadBases(r))
            /\ OccursInPrimary(KmerAt(r, q))

\* key is the canonical form of a window of a scanned read whose s + 2
\* k-mer positions are all labelled
FromSupportedWindow(key) ==
    \E r \in ReadIds :
        /\ Scanned(r)
        /\ \E j \in SupportedWindows(r) : WindowKey(r, j) = key

\* C21: every position phase 1 labels in a read is a k-mer position q with
\* q + k <= L whose k-mer, or its reverse complement, occurs in a primary
\* contig; and every key of iterative_edges, and every key a read has
\* incremented, is the canonical form of a (k+s+1)-window of a read whose
\* s + 2 k-mer positions are all labelled.
C21_LabellingSound ==
    /\ \A r \in ReadIds : Scanned(r) => LabelsSound(r)
    /\ \A key \in DOMAIN iterative_edges : FromSupportedWindow(key)
    /\ \A r \in ReadIds : \A x \in 1..Len(incs[r]) :
           /\ Scanned(r)
           /\ \E j \in SupportedWindows(r) : WindowKey(r, j) = incs[r][x]

\* the run is done; a read has a label at a k-mer that is no key of
\* crusial_kmers in either strand, set by a hint, next to a label set by a
\* reverse hit, and it has added a key to iterative_edges
C21_Witness ==
    /\ pc = "done"
    /\ \E r \in ReadIds :
           /\ Scanned(r)
           /\ \E q \in 0..(Len(ReadBases(r)) - k_) :
                  /\ Labels(r)[q + 1]
                  /\ KmerAt(r, q) \notin DOMAIN crusial_kmers
                  /\ ReverseComplement(KmerAt(r, q)) \notin DOMAIN crusial_kmers
           /\ \E q \in 0..(Len(ReadBases(r)) - k_) :
                  /\ Labels(r)[q + 1]
                  /\ KmerAt(r, q) \notin DOMAIN crusial_kmers
                  /\ ReverseComplement(KmerAt(r, q)) \in DOMAIN crusial_kmers
           /\ Len(incs[r]) >= 1
           /\ incs[r][1] \in DOMAIN iterative_edges

\* ------------------------------------------------------------------------
\* The read pass with phase 1 taken one loop iteration at a time
\* ------------------------------------------------------------------------

\* a worker takes iteration x of the parallel loop and sets up the scan:
\* kmer_exist, cur_pos, last_marked_pos, kmer and rev_kmer
BeginScan(w, x) ==
    /\ pc = "r_scan"
    /\ wk[w].pc = "idle"
    /\ read_state[x] = "todo"
    /\ LET bases == cur_package[x].bases
       IN IF SkipRead(Len(bases))
          THEN FinishRead(w, x, FALSE)
          ELSE /\ wk' = [wk EXCEPT ![w] = [pc |-> "probe", i |-> x,
                                           st |-> ScanInit(bases, k_),
                                           key |-> <<>>, multi |-> 0]]
               /\ read_state' = [read_state EXCEPT ![x] = "busy"]
               /\ UNCHANGED <<is_aligned, num_aligned_reads, finished>>
    /\ UNCHANGED <<input, procVars, ioVars, mainVars, mapVars, num_total_reads, incs, outVars>>

\* the while loop of phase 1 is entered for one more iteration
ProbeLoopRuns(w) ==
    /\ wk[w].pc = "probe"
    /\ wk[w].st.probing
    /\ wk[w].st.cur_pos + k_ <= Len(cur_package[wk[w].i].bases)

\* one iteration of the while loop of phase 1
ProbeOne(w) ==
    /\ pc = "r_scan"
    /\ ProbeLoopRuns(w)
    /\ wk' = [wk EXCEPT ![w].st =
                 ProbeStep(cur_package[wk[w].i].bases, k_, crusial_kmers, @)]
    /\ UNCHANGED <<input, procVars, ioVars, mainVars, mapVars, read_state, is_aligned,
                   num_aligned_reads, num_total_reads, incs, finished, outVars>>

\* the while loop of phase 1 is over: phase 2 up to its first emission
EndProbe(w) ==
    /\ pc = "r_scan"
    /\ wk[w].pc = "probe"
    /\ ~ProbeLoopRuns(w)
    /\ LET x == wk[w].i
           st == Phase2From(cur_package[x].bases, k_, s_, wk[w].st)
       IN IF st.at = "emit"
          THEN AtEmission(w, x, st)
          ELSE FinishRead(w, x, st.aligned)
    /\ UNCHANGED <<input, procVars, ioVars, mainVars, mapVars, num_total_reads, incs, outVars>>

NextProbe ==
    \/ ReadReadsThread
    \/ ReadJoinBreak
    \/ ReadJoinSwap
    \/ \E w \in Workers, x \in DOMAIN read_state : BeginScan(w, x)
    \/ \E w \in Workers : ProbeOne(w)
    \/ \E w \in Workers : EndProbe(w)
    \/ \E w \in Workers : GetRefWithLock(w)
    \/ \E w \in Workers : LoadMulti(w)
    \/ \E w \in Workers : StoreMulti(w)
    \/ \E w \in Workers : Unlock(w)
    \/ WriteReads
    \/ \E key \in drain_left : DrainEdge(key)
    \/ Finish

\* a worker thread that is in the loop of phase 1 takes its next iteration
SpecProbe ==
    /\ InitSym
    /\ [][NextProbe]_vars
    /\ WF_vars(\E w \in Workers : ProbeOne(w))

\* ------------------------------------------------------------------------
\* C22
\* ------------------------------------------------------------------------

\* the indices of the bases the forward matching loop may compare
ForwardIndices(bases, k, cur_pos, s_seq) ==
    {cur_pos + k + j : j \in {y \in 0..(HintLength(s_seq) - 1) :
                                 cur_pos + k + y < Len(bases)}}

\* the indices of the bases the backward matching loop may compare, which
\* are the indices of kmer_exist it may set
BackwardIndices(cur_pos, last_marked_pos, s_seq) ==
    {cur_pos - 1 - j : j \in {y \in 0..(HintLength(s_seq) - 1) :
                                 cur_pos - 1 - y > last_marked_pos}}

\* the indices of the bases one iteration of the loop of phase 1 may read
ProbeReads(bases, k, c3, st) ==
    (IF HitForward(c3, st)
     THEN ForwardIndices(bases, k, st.cur_pos, c3[st.kmer])
     ELSE IF HitReverse(c3, st)
     THEN BackwardIndices(st.cur_pos, st.last_marked_pos, c3[st.rev_kmer])
     ELSE {})
    \cup (IF NextPosOf(bases, k, c3, st) + k <= Len(bases)
          THEN {x + k - 1 : x \in (st.cur_pos + 1)..NextPosOf(bases, k, c3, st)}
          ELSE {})

\* the indices of kmer_exist one iteration of the loop of phase 1 may use
ProbeWrites(bases, k, c3, st) ==
    {st.cur_pos}
    \cup (IF HitForward(c3, st)
          THEN {x - k + 1 : x \in ForwardIndices(bases, k, st.cur_pos, c3[st.kmer])}
          ELSE IF HitReverse(c3, st)
          THEN BackwardIndices(st.cur_pos, st.last_marked_pos, c3[st.rev_kmer])
          ELSE {})

\* worker w is in phase 1 of a read
InPhase1(w) == wk[w].pc = "probe"

\* kmer is R[cur_pos .. cur_pos+k) and rev_kmer its reverse complement
InSyncAtProbe(w) ==
    LET st == wk[w].st
        bases == BasesOf(w)
    IN /\ st.cur_pos >= 0
       /\ st.cur_pos + k_ <= Len(bases)
       /\ st.kmer = SubSeq(bases, st.cur_pos + 1, st.cur_pos + k_)
       /\ st.rev_kmer = ReverseComplement(st.kmer)

\* the iteration worker w is about to run reads bases and uses kmer_exist
\* at indices of the read only, and its backward loop stays above
\* last_marked_pos and at or above 0
IndicesInRead(w) ==
    LET st == wk[w].st
        bases == BasesOf(w)
    IN /\ ProbeReads(bases, k_, crusial_kmers, st) \subseteq 0..(Len(bases) - 1)
       /\ ProbeWrites(bases, k_, crusial_kmers, st) \subseteq 0..(Len(bases) - 1)
       /\ st.last_marked_pos >= -1
       /\ HitReverse(crusial_kmers, st) =>
              \A x \in BackwardIndices(st.cur_pos, st.last_marked_pos,
                                       crusial_kmers[st.rev_kmer]) :
                  x >= 0 /\ x > st.last_marked_pos

\* an iteration of the loop either moves cur_pos up to next_pos, which is at
\* least cur_pos + 1 and has next_pos + k <= L, or exits with next_pos + k > L
IterationAdvancesOrExits(w) ==
    InPhase1(w) /\ wk'[w].pc = "probe" /\ wk'[w] # wk[w] =>
        LET st == wk[w].st
            next_pos == NextPosOf(BasesOf(w), k_, crusial_kmers, st)
        IN /\ next_pos >= st.cur_pos + 1
           /\ IF wk'[w].st.probing
              THEN /\ wk'[w].st.cur_pos = next_pos
                   /\ wk'[w].st.cur_pos > st.cur_pos
                   /\ next_pos + k_ <= Len(BasesOf(w))
              ELSE /\ next_pos + k_ > Len(BasesOf(w))
                   /\ wk'[w].st.cur_pos = st.cur_pos

\* some worker is in the loop of phase 1, with an iteration to run
SomeInPhase1 == \E w \in Workers : ProbeLoopRuns(w)

\* at every probe the k-mers are in step with cur_pos and the indices of
\* the iteration are indices of the read
ProbesInStep ==
    \A w \in Workers : InPhase1(w) => InSyncAtProbe(w) /\ IndicesInRead(w)

\* every iteration of every worker moves cur_pos up or exits
IterationsAdvance == \A w \in Workers : IterationAdvancesOrExits(w)

\* C22: phase 1 of the scan of a read terminates; every iteration of its
\* loop moves cur_pos strictly up or exits, and exits once next_pos + k > L;
\* at every probe kmer is R[cur_pos .. cur_pos+k) and rev_kmer its reverse
\* complement; every index used to read a base or to use kmer_exist is in
\* [0, L), and the backward loop stays above last_marked_pos and at or
\* above 0.
C22_Phase1Terminates ==
    /\ []ProbesInStep
    /\ [][IterationsAdvance]_vars
    /\ SomeInPhase1 ~> ~SomeInPhase1

\* phase 1 of a read has ended after a forward hit with its hint and a
\* reverse hit with its hint were taken: the loop is over at a position
\* above 0 with labels below and above it
C22_Witness ==
    \E w \in Workers :
        /\ InPhase1(w)
        /\ ~wk[w].st.probing
        /\ wk[w].st.cur_pos >= 2
        /\ wk[w].st.last_marked_pos >= 1
        /\ \E q \in 1..Len(wk[w].st.kmer_exist) :
               q > wk[w].st.last_marked_pos + 1 /\ wk[w].st.kmer_exist[q]

\* ------------------------------------------------------------------------
\* The program under the scheduling of its threads
\* ------------------------------------------------------------------------

\* Fairness is stated on the control effect of each step. A step of Next
\* with the effect is the step of the action named, and the effect is
\* enabled exactly when the action is.

\* an iteration of the loop that emits the edges of the batch
EmitContigStep ==
    /\ pc = "c_emit"
    /\ emit_i < Len(cur_package)
    /\ emit_i' = emit_i + 1

\* an iteration of the loop over iterative_edges
DrainEdgeStep ==
    /\ pc = "drain"
    /\ \E key \in drain_left : drain_left' = drain_left \ {key}

\* a worker takes or ends an iteration of the loop over the contigs
BuildStep ==
    /\ pc = "c_build"
    /\ \E x \in DOMAIN c3_stage :
           \/ /\ c3_stage[x] = 0
              /\ Cardinality(InProgress) < Cardinality(Workers)
              /\ c3_stage' \in {[c3_stage EXCEPT ![x] = 1], [c3_stage EXCEPT ![x] = 2]}
           \/ /\ c3_stage[x] = 1
              /\ c3_stage' = [c3_stage EXCEPT ![x] = 2]

\* a worker takes an iteration of the loop over the reads
StartReadStep ==
    /\ pc = "r_scan"
    /\ \E w \in Workers, x \in DOMAIN read_state :
           /\ wk[w].pc = "idle"
           /\ read_state[x] = "todo"
           /\ read_state' \in {[read_state EXCEPT ![x] = "busy"],
                               [read_state EXCEPT ![x] = "done"]}

\* a worker unlocks the key it has incremented
UnlockStep ==
    /\ pc = "r_scan"
    /\ \E w \in Workers :
           /\ wk[w].pc = "unlock"
           /\ locked' = locked \ {wk[w].key}

\* the steps of the main thread outside its loops over contigs and edges
MainStep ==
    \/ BeginPrimary
    \/ BeginAddi
    \/ ContigJoinBreak
    \/ ContigJoinSwap
    \/ WriteHeader
    \/ EmitLoopEnd
    \/ BeginReads
    \/ ReadJoinBreak
    \/ ReadJoinSwap
    \/ WriteReads
    \/ Finish

\* every thread that can take a step takes one: the I/O thread, the main
\* thread, the workers
Scheduling ==
    /\ WF_vars(ReadContigsThread \/ ReadReadsThread)
    /\ WF_vars(MainStep)
    /\ WF_emit_i(EmitContigStep)
    /\ WF_drain_left(DrainEdgeStep)
    /\ WF_c3_stage(BuildStep)
    /\ WF_read_state(StartReadStep)
    /\ WF_vars(\E w \in Workers : GetRefWithLock(w) \/ LoadMulti(w) \/ StoreMulti(w))
    /\ WF_locked(UnlockStep)

SpecFair == Init /\ [][Next]_vars /\ Scheduling

\* ------------------------------------------------------------------------
\* C23
\* ------------------------------------------------------------------------

InContigLoop == pc \in {"c_join", "c_build", "c_emit"}

InReadLoop == pc \in {"r_join", "r_scan"}

\* the number of records of the file the loop reads
SourceLen ==
    IF InReadLoop THEN Len(input.reads)
    ELSE IF is_addi_contigs THEN Len(input.addi) ELSE Len(input.contigs)

\* the number of records the I/O threads of the loop have read
SourcePos ==
    IF InReadLoop THEN file_pos.reads
    ELSE IF is_addi_contigs THEN file_pos.addi ELSE file_pos.contigs

\* the batch holds the records first, first + 1, ... of the file
RecordsFrom(batch, first) == \A x \in 1..Len(batch) : batch[x].id = first + x - 1

\* the main thread takes a batch for the workers: it is the batch the joined
\* thread has filled, it is not empty, it holds the records that follow the
\* batch processed before, and it ends where the file has been read up to
TakesNextBatch ==
    pc \in {"c_join", "r_join"} /\ pc' \in {"c_build", "r_scan"} =>
        /\ cur_package' = packages[input_thread_index]
        /\ Len(cur_package') > 0
        /\ RecordsFrom(cur_package',
                       IF Len(cur_package) = 0 THEN 1
                       ELSE cur_package[Len(cur_package)].id + 1)
        /\ cur_package'[Len(cur_package')].id = SourcePos

\* the main thread is back at pthread_join with every record of the batch
\* processed once
BatchDoneAtJoin ==
    /\ pc = "c_emit" /\ pc' = "c_join" =>
           /\ emit_i = Len(cur_package)
           /\ \A x \in DOMAIN c3_stage : c3_stage[x] = 2
    /\ pc = "r_scan" /\ pc' = "r_join" =>
           /\ \A x \in DOMAIN read_state : read_state[x] = "done"
           /\ \A x \in 1..Len(cur_package) :
                  CountIn(finished, cur_package[x].id) = 1

\* the loop is left at an empty batch, with the file read to its end and its
\* last record in the batch processed last
LeavesAtEmptyBatch ==
    (InContigLoop \/ InReadLoop) /\ pc' \in {"ret_contigs", "drain"} =>
        /\ Len(packages[input_thread_index]) = 0
        /\ SourcePos = SourceLen
        /\ SourceLen > 0 =>
               /\ Len(cur_package) > 0
               /\ cur_package[Len(cur_package)].id = SourceLen

\* no I/O thread is left running or unjoined outside the loops
JoinedOutsideLoops ==
    pc \in {"ret_contigs", "drain", "done"} => input_thread.state = "joined"

\* every read is processed once, the batches in the order of the file
ReadsOnceInOrder ==
    /\ \A x, y \in 1..Len(finished) :
           x < y => /\ finished[x] # finished[y]
                    /\ (finished[x] - 1) \div BatchCap <= (finished[y] - 1) \div BatchCap
    /\ pc \in {"drain", "done"} => Len(finished) = Len(input.reads)

\* C23: in both pipelines every batch the I/O thread fills before the end
\* of the input is processed by the workers once and in the order it was
\* filled, no batch that is not empty is dropped at the end of the input,
\* the loop ends at the first empty batch, which it reaches, and then the
\* last I/O thread created has been joined.
C23_BatchesOnceInOrder ==
    /\ [](JoinedOutsideLoops /\ ReadsOnceInOrder)
    /\ [][TakesNextBatch /\ BatchDoneAtJoin /\ LeavesAtEmptyBatch]_vars
    /\ InContigLoop ~> ~InContigLoop
    /\ InReadLoop ~> ~InReadLoop
    /\ <>(pc = "done")

\* the program is done after the loop over the contigs and the loop over the
\* reads, which took more than one batch of reads, and every read is
\* finished
C23_Witness ==
    /\ pc = "done"
    /\ input_thread.state = "joined"
    /\ Len(input.reads) > BatchCap
    /\ Len(input.contigs) > 0
    /\ num_total_reads = Len(input.reads)
    /\ Len(finished) = Len(input.reads)

====
